---------------------------- MODULE Spec2Model ----------------------------
(***************************************************************************)
(* Portable session container (.portab / .sportab) of the browser          *)
(* extension: building a container from raw browser windows, writing it    *)
(* plain or sealed, reading it back on the import page, opening a sealed   *)
(* envelope and restoring the windows.                                     *)
(*                                                                         *)
(* Strings the code takes apart are modelled by their parts:               *)
(*   - a URL string is [lead, scheme, host, path, query]: the characters   *)
(*     before the scheme, the scheme as spelled, and the rest;             *)
(*   - a favicon string is [head, tail];                                   *)
(*   - a password is the sequence of its bytes.                            *)
(* JSON text is the ordered list of <<key, value>> pairs of the top-level  *)
(* object.  SHA-256, HMAC, PBKDF2, AES-GCM and base64 are symbolic terms:   *)
(* two terms are equal exactly when the bytes they stand for are equal.    *)
(***************************************************************************)
EXTENDS Integers, Sequences, FiniteSets, TLC

VARIABLES
  bWindows,   \* SpecBuild: the raw windows handed to createSession
  bMetadata,  \* SpecBuild: the metadata/options argument
  bSession,   \* SpecBuild: the container returned
  bBy,        \* SpecBuild: which background script built it
  sSealed,    \* SpecSeal: what was sealed: the session, the password, the file
  sFile,      \* SpecSeal: the .sportab file as it is now (JSON text)
  sChanged,   \* SpecSeal: the field of the file changed since it was written
  sOpen,      \* SpecSeal: the last decrypt-session attempt and its outcome
  hostWindows,  \* Spec: the browser's windows when the export runs
  disk,         \* Spec: the exported file: extension, JSON text, edited or not
  exported,     \* Spec: the export handler's response
  page,         \* Spec: the import page: currentSession, selectedTabs, its view
  imp,          \* Spec: the import-session handler: its place and its locals
  created,      \* Spec: the browser windows importSession has created
  xView,        \* SpecSelect: the popup's view: export-main or export-detail
  xTabs,        \* SpecSelect: the popup's state.exportTabs
  xSelected,    \* SpecSelect: the popup's state.exportSelectedTabs, in insertion order
  xSession,     \* SpecSelect: the container createSessionFromSelectedTabs returned
  xMetadata,    \* SpecSelect: the metadata argument it was called with
  xDom,         \* the popup's export list: checkboxes, confirm button, requests
  lsn           \* SpecListen: the background listener's call for one message

buildVars == <<bWindows, bMetadata, bSession, bBy>>
sealVars == <<sSealed, sFile, sChanged, sOpen>>
pipeVars == <<hostWindows, disk, exported, page, imp, created>>
selVars == <<xView, xTabs, xSelected, xSession, xMetadata, xDom>>
listenVars == <<lsn>>
vars == <<buildVars, sealVars, pipeVars, selVars, listenVars>>

(***************************************************************************)
(* Bounds                                                                  *)
(***************************************************************************)
MaxTabs == 3      \* tabs in all raw windows together
MaxWindows == 2   \* raw windows
MaxHostTabs == 2  \* Spec: tabs in all browser windows together
MaxPickTabs == 3  \* SpecSelect: tabs in all browser windows together

(***************************************************************************)
(* Helpers                                                                 *)
(***************************************************************************)
Range(s) == {s[i] : i \in 1..Len(s)}

RECURSIVE SumSeq(_)
SumSeq(s) == IF s = <<>> THEN 0 ELSE Head(s) + SumSeq(Tail(s))

RECURSIVE FilterSeq(_, _)
\* Array.prototype.filter with the predicate given as the set of kept values
FilterSeq(s, keep) ==
  IF s = <<>> THEN <<>>
  ELSE IF Head(s) \in keep THEN <<Head(s)>> \o FilterSeq(Tail(s), keep)
       ELSE FilterSeq(Tail(s), keep)

(***************************************************************************)
(* URL strings                                                             *)
(***************************************************************************)
\* the URL parser lower-cases the scheme
ToLowerCase(s) ==
  CASE s = "JAVASCRIPT" -> "javascript"
    [] s = "Data" -> "data"
    [] OTHER -> s

\* schemes the URL standard calls special: they carry a host and a path
SpecialSchemes == {"http", "https"}

\* new URL(url) does not throw: the string, stripped of leading spaces, has a
\* scheme (no base URL is given, so a relative reference is a TypeError)
URLParses(url) == url.scheme # ""

\* the scheme of the parsed URL
ParsedScheme(url) == ToLowerCase(url.scheme)

\* url.startsWith(scheme + ':'), on the raw string
startsWith(url, scheme) == url.lead = "" /\ url.scheme = scheme

\* url.length > 0
NonEmpty(url) == url.lead # "" \/ url.scheme # "" \/ url.host # ""

\* URL.prototype.toString(): the serialisation of the parsed URL
URLToString(url, query) ==
  [lead |-> "",
   scheme |-> ParsedScheme(url),
   host |-> url.host,
   path |-> IF ParsedScheme(url) \in SpecialSchemes /\ url.path = ""
            THEN "/" ELSE url.path,
   query |-> query]

\* background script with import/export support
isValidURL(url) ==
  /\ URLParses(url)
  /\ ~startsWith(url, "about")
  /\ ~startsWith(url, "moz-extension")
  /\ ~startsWith(url, "chrome")
  /\ ~startsWith(url, "chrome-extension")
  /\ ~startsWith(url, "javascript")
  /\ ~startsWith(url, "data")
  /\ NonEmpty(url)

\* export-only background script
isValidURLExportOnly(url) ==
  /\ URLParses(url)
  /\ ~startsWith(url, "about")
  /\ ~startsWith(url, "moz-extension")
  /\ ~startsWith(url, "chrome")
  /\ ~startsWith(url, "chrome-extension")
  /\ NonEmpty(url)

trackingParams ==
  {"utm_source", "utm_medium", "utm_campaign", "utm_term", "utm_content",
   "fbclid", "gclid", "msclkid", "mc_cid", "mc_eid",
   "_ga", "_gid", "ref", "source"}

trackingParamsExportOnly ==
  {"utm_source", "utm_medium", "utm_campaign", "utm_term", "utm_content",
   "fbclid", "gclid", "msclkid", "mc_cid", "mc_eid"}

AllParams == trackingParams \cup {"q", "page"}

sanitizeURLKeepsRef(url) ==
  IF URLParses(url)
  THEN URLToString(url, FilterSeq(url.query, AllParams \ trackingParamsExportOnly))
  ELSE url

sanitizeURL(url) ==
  IF URLParses(url)
  THEN URLToString(url, FilterSeq(url.query, AllParams \ trackingParams))
  ELSE url

sanitizeURLExportOnly(url) ==
  IF URLParses(url)
  THEN URLToString(url, FilterSeq(url.query, AllParams \ trackingParamsExportOnly))
  ELSE url

(***************************************************************************)
(* Raw tabs and windows, as the browser hands them over                    *)
(***************************************************************************)
NoFavicon == [head |-> "", tail |-> ""]            \* undefined or ""
HttpFavicon == [head |-> "https", tail |-> "://a.example/favicon.ico"]

\* favIconUrl.startsWith('http')
FaviconStartsWithHttp(f) == f.head \in {"http", "https"}
Truthy(f) == f # NoFavicon


TabA == [url |-> [lead |-> "", scheme |-> "https", host |-> "a.example", path |-> "",
      query |-> <<>>], title |-> "A", pinned |-> TRUE, favIconUrl |-> HttpFavicon]
TabB == [url |-> [lead |-> "", scheme |-> "https", host |-> "b.example", path |-> "/",
      query |-> <<"utm_source", "q">>], title |-> "", pinned |-> FALSE,
      favIconUrl |-> [head |-> "data", tail |-> ":image/png;base64,AAAA"]]
TabScript == [url |-> [lead |-> "", scheme |-> "javascript", host |-> "alert(1)", path |-> "",
      query |-> <<>>], title |-> "S", pinned |-> FALSE,
              favIconUrl |-> NoFavicon]


TabD == [url |-> [lead |-> "", scheme |-> "https", host |-> "d.example", path |-> "/p",
      query |-> <<"page", "ref", "q", "_ga">>], title |-> "D", pinned |-> TRUE,
      favIconUrl |-> [head |-> "chrome", tail |-> "://branding/content/icon32.png"]]


\* a window is focused or incognito
WindowFlags == {[focused |-> TRUE, incognito |-> FALSE],
                [focused |-> FALSE, incognito |-> TRUE]}

\* tabs[x] belongs to window owner[x]; a window's tabs are adjacent
Adjacent(owner) ==
  \A x \in DOMAIN owner : \A y \in DOMAIN owner : x < y => owner[x] <= owner[y]

\* the tabs of window i, in their order
TabsOfWindow(tabs, owner, i) ==
  LET mine == {x \in DOMAIN tabs : owner[x] = i}
  IN [j \in 1..Cardinality(mine) |->
        tabs[CHOOSE x \in mine : Cardinality({y \in mine : y < x}) = j - 1]]

\* the list of windows with these flags that holds these tabs
WindowList(flags, tabs, owner) ==
  [i \in DOMAIN flags |->
     [focused |-> flags[i].focused, incognito |-> flags[i].incognito,
      tabs |-> TabsOfWindow(tabs, owner, i)]]

\* the window of the worked example: a (pinned), javascript:alert(1), b
ExampleWindows ==
  <<[focused |-> TRUE, incognito |-> FALSE, tabs |-> <<TabA, TabScript, TabB>>]>>

(***************************************************************************)
(* createSession                                                           *)
(***************************************************************************)
NoSession == [none |-> TRUE]

TabCountOf(windowsObj) == SumSeq([i \in 1..Len(windowsObj) |-> Len(windowsObj[i].tabs)])

BuildTabStoresAnyFavicon(tab, tabIndex, metadata) ==
  LET url1 == IF metadata.privacyMode THEN sanitizeURL(tab.url) ELSE tab.url
      title0 == IF tab.title = "" THEN "Untitled" ELSE tab.title
      title1 == IF metadata.privacyMode THEN "[Private]" ELSE title0
      title2 == IF metadata.secureMode THEN "[Secure - Hidden]" ELSE title1
      favicon == IF metadata.privacyMode \/ metadata.secureMode
                 THEN NoFavicon ELSE tab.favIconUrl
      tabData == [id |-> tabIndex, url |-> url1, title |-> title2,
                  pinned |-> tab.pinned, group_id |-> "null"]
  IN IF Truthy(favicon)
     THEN [k \in DOMAIN tabData \cup {"favicon"} |->
             IF k = "favicon" THEN favicon ELSE tabData[k]]
     ELSE tabData

BuildTabSecureUnpins(tab, tabIndex, metadata) ==
  LET favicon0 == IF Truthy(tab.favIconUrl) /\ FaviconStartsWithHttp(tab.favIconUrl)
                  THEN tab.favIconUrl ELSE NoFavicon
      url1 == IF metadata.privacyMode THEN sanitizeURL(tab.url) ELSE tab.url
      title0 == IF tab.title = "" THEN "Untitled" ELSE tab.title
      title1 == IF metadata.privacyMode THEN "[Private]" ELSE title0
      title2 == IF metadata.secureMode THEN "[Secure - Hidden]" ELSE title1
      favicon == IF metadata.privacyMode \/ metadata.secureMode
                 THEN NoFavicon ELSE favicon0
      tabData == [id |-> tabIndex, url |-> url1, title |-> title2,
                  pinned |-> tab.pinned /\ ~metadata.secureMode,
                  group_id |-> "null"]
  IN IF Truthy(favicon)
     THEN [k \in DOMAIN tabData \cup {"favicon"} |->
             IF k = "favicon" THEN favicon ELSE tabData[k]]
     ELSE tabData

BuildTabSecureSkipsPrivacy(tab, tabIndex, metadata) ==
  LET url1 == IF metadata.privacyMode /\ ~metadata.secureMode
              THEN sanitizeURL(tab.url) ELSE tab.url
      title2 == IF metadata.secureMode THEN "[Secure - Hidden]"
                ELSE IF metadata.privacyMode THEN "[Private]"
                ELSE IF tab.title = "" THEN "Untitled" ELSE tab.title
      favicon == IF metadata.privacyMode \/ metadata.secureMode
                    \/ ~FaviconStartsWithHttp(tab.favIconUrl)
                 THEN NoFavicon ELSE tab.favIconUrl
      tabData == [id |-> tabIndex, url |-> url1, title |-> title2,
                  pinned |-> tab.pinned, group_id |-> "null"]
  IN IF Truthy(favicon)
     THEN [k \in DOMAIN tabData \cup {"favicon"} |->
             IF k = "favicon" THEN favicon ELSE tabData[k]]
     ELSE tabData

\* validTabs.map(...) of the background script with import/export support
BuildTab(tab, tabIndex, metadata) ==
  LET favicon0 == IF Truthy(tab.favIconUrl) /\ FaviconStartsWithHttp(tab.favIconUrl)
                  THEN tab.favIconUrl ELSE NoFavicon
      url1 == IF metadata.privacyMode THEN sanitizeURL(tab.url) ELSE tab.url
      title0 == IF tab.title = "" THEN "Untitled" ELSE tab.title
      title1 == IF metadata.privacyMode THEN "[Private]" ELSE title0
      title2 == IF metadata.secureMode THEN "[Secure - Hidden]" ELSE title1
      favicon == IF metadata.privacyMode \/ metadata.secureMode
                 THEN NoFavicon ELSE favicon0
      tabData == [id |-> tabIndex, url |-> url1, title |-> title2,
                  pinned |-> tab.pinned, group_id |-> "null"]
  IN IF Truthy(favicon)
     THEN [k \in DOMAIN tabData \cup {"favicon"} |->
             IF k = "favicon" THEN favicon ELSE tabData[k]]
     ELSE tabData

RECURSIVE BuildWindowsKeepsInvalid(_, _, _)
BuildWindowsKeepsInvalid(windows, index, metadata) ==
  IF index > Len(windows) THEN <<>>
  ELSE LET window == windows[index]
           validTabs == window.tabs
       IN IF validTabs = <<>> THEN BuildWindowsKeepsInvalid(windows, index + 1, metadata)
          ELSE <<[key |-> index,
                  active |-> window.focused,
                  incognito |-> window.incognito,
                  tabs |-> [i \in 1..Len(validTabs) |->
                              BuildTab(validTabs[i], i, metadata)]]>>
               \o BuildWindowsKeepsInvalid(windows, index + 1, metadata)

RECURSIVE BuildWindows(_, _, _)
\* windows.forEach((window, index) => ...): index counts from 1 here
BuildWindows(windows, index, metadata) ==
  IF index > Len(windows) THEN <<>>
  ELSE LET window == windows[index]
           validTabs == FilterSeq(window.tabs,
                                  {t \in Range(window.tabs) : isValidURL(t.url)})
       IN IF validTabs = <<>> THEN BuildWindows(windows, index + 1, metadata)
          ELSE <<[key |-> index,
                  active |-> window.focused,
                  incognito |-> window.incognito,
                  tabs |-> [i \in 1..Len(validTabs) |->
                              BuildTab(validTabs[i], i, metadata)]]>>
               \o BuildWindows(windows, index + 1, metadata)

createSessionCopiesCallerCounts(windows, metadata) ==
  LET windowsObj == BuildWindows(windows, 1, metadata)
  IN [version |-> "1.0",
      format |-> IF metadata.secureMode THEN "sportab" ELSE "portab",
      metadata |-> [created |-> "now",
                    name |-> IF metadata.name = "" THEN "Browser Session"
                             ELSE metadata.name,
                    source_browser |-> "firefox",
                    source_os |-> "platform",
                    tab_count |-> metadata.tabCount,
                    window_count |-> metadata.windowCount,
                    privacy_mode |-> metadata.privacyMode,
                    secure_mode |-> metadata.secureMode],
      windows |-> windowsObj,
      groups |-> <<>>]

createSession(windows, metadata) ==
  LET windowsObj == BuildWindows(windows, 1, metadata)
  IN [version |-> "1.0",
      format |-> IF metadata.secureMode THEN "sportab" ELSE "portab",
      metadata |-> [created |-> "now",
                    name |-> IF metadata.name = "" THEN "Browser Session"
                             ELSE metadata.name,
                    source_browser |-> "firefox",
                    source_os |-> "platform",
                    tab_count |-> TabCountOf(windowsObj),
                    window_count |-> Len(windowsObj),
                    privacy_mode |-> metadata.privacyMode,
                    secure_mode |-> metadata.secureMode],
      windows |-> windowsObj,
      groups |-> <<>>]

\* validTabs.map(...) of the export-only background script
BuildTabExportOnly(tab, tabIndex, metadata) ==
  [id |-> tabIndex,
   url |-> IF metadata.privacyMode THEN sanitizeURLExportOnly(tab.url) ELSE tab.url,
   title |-> IF metadata.privacyMode THEN "[Private]"
             ELSE IF tab.title = "" THEN "Untitled" ELSE tab.title,
   pinned |-> tab.pinned,
   group_id |-> "null"]

RECURSIVE BuildWindowsExportOnly(_, _, _)
BuildWindowsExportOnly(windows, index, metadata) ==
  IF index > Len(windows) THEN <<>>
  ELSE LET window == windows[index]
           validTabs == FilterSeq(window.tabs,
                          {t \in Range(window.tabs) : isValidURLExportOnly(t.url)})
       IN IF validTabs = <<>>
          THEN BuildWindowsExportOnly(windows, index + 1, metadata)
          ELSE <<[key |-> index,
                  active |-> window.focused,
                  tabs |-> [i \in 1..Len(validTabs) |->
                              BuildTabExportOnly(validTabs[i], i, metadata)]]>>
               \o BuildWindowsExportOnly(windows, index + 1, metadata)

createSessionExportOnly(windows, metadata) ==
  LET windowsObj == BuildWindowsExportOnly(windows, 1, metadata)
  IN [version |-> "1.0",
      format |-> "portab",
      metadata |-> [created |-> "now",
                    name |-> IF metadata.name = "" THEN "Browser Session"
                             ELSE metadata.name,
                    source_browser |-> "firefox",
                    source_os |-> "platform",
                    tab_count |-> TabCountOf(windowsObj),
                    window_count |-> Len(windowsObj),
                    privacy_mode |-> metadata.privacyMode],
      windows |-> windowsObj,
      groups |-> <<>>]

(***************************************************************************)
(* JSON text: the <<key, value>> pairs of the top-level object, in the     *)
(* object's insertion order                                                *)
(***************************************************************************)
\* the order in which the code's object literals insert their keys; signature
\* is assigned last
KeyOrder ==
  <<"version", "format", "encrypted", "algorithm", "salt", "iv", "data",
    "metadata", "windows", "groups", "signature">>

RECURSIVE StringifyFrom(_, _)
StringifyFrom(obj, i) ==
  IF i > Len(KeyOrder) THEN <<>>
  ELSE IF KeyOrder[i] \in DOMAIN obj
       THEN <<<<KeyOrder[i], obj[KeyOrder[i]]>>>> \o StringifyFrom(obj, i + 1)
       ELSE StringifyFrom(obj, i + 1)

\* JSON.stringify(obj, null, 2)
JSONstringify(obj) == StringifyFrom(obj, 1)

\* JSON.parse(text)
JSONparse(text) ==
  [k \in {text[i][1] : i \in 1..Len(text)} |->
     text[CHOOSE i \in 1..Len(text) : text[i][1] = k][2]]

\* obj.key is present and truthy
HasTrue(obj, key) == key \in DOMAIN obj /\ obj[key] = TRUE

(***************************************************************************)
(* Passwords, digests and ciphers                                          *)
(***************************************************************************)
NoPassword == <<>>          \* null, undefined or ""
PwA == <<97>>               \* "a"
PwB == <<98>>               \* "b"
Passwords == {NoPassword, PwA, (<<97, 0>>         ), PwB}

RECURSIVE HmacKeyBlock(_)
\* HMAC pads a key shorter than the hash block with zero bytes up to the block
\* size: the key block is fixed by the key without its trailing zero bytes
HmacKeyBlock(key) ==
  IF key # <<>> /\ key[Len(key)] = 0
  THEN HmacKeyBlock(SubSeq(key, 1, Len(key) - 1))
  ELSE key

\* hex of SHA-256 of the UTF-8 bytes of data
generateHash(data) == [alg |-> "SHA-256", data |-> data]

SigGarbage == [alg |-> "none", data |-> <<>>]

\* crypto.subtle.importKey('raw', key, HMAC) rejects a key of no bytes
HMACThrows(key) == key = <<>>

\* hex of HMAC-SHA-256 of the characters of data (a base64 string) under key
generateHMAC(data, key) ==
  [alg |-> "HMAC-SHA-256", key |-> HmacKeyBlock(key), data |-> data]

verifyHMACAlwaysValid(data, signature, key) == TRUE

verifyHMAC(data, signature, key) ==
  IF HMACThrows(key) THEN FALSE
  ELSE generateHMAC(data, key) = signature

Iterations == 100000

\* PBKDF2 keys its HMAC with the password
deriveKey(password, salt) ==
  [kdf |-> "PBKDF2", hash |-> "SHA-256", iterations |-> Iterations,
   password |-> HmacKeyBlock(password), salt |-> salt]


\* AES-GCM: ciphertext and authentication tag
Encrypt(key, iv, plaintext) ==
  [cipher |-> "AES-GCM", key |-> key, iv |-> iv, plaintext |-> plaintext]

CipherGarbage == [cipher |-> "none", key |-> [kdf |-> "none", hash |-> "", iterations |-> 0,
      password |-> <<>>, salt |-> ""], iv |-> "", plaintext |-> <<>>]

\* crypto.subtle.decrypt does not throw: the tag verifies under key and iv
DecryptOK(key, iv, ciphertext) ==
  ciphertext.cipher = "AES-GCM" /\ ciphertext.key = key /\ ciphertext.iv = iv

\* btoa(String.fromCharCode(...bytes))
btoa(bytes) == [form |-> "canonical", bytes |-> bytes]

\* atob(string) throws on a string that is not base64; it accepts other
\* spellings (padding left out, unused bits set) of the same bytes
AtobOK(string) == string.form # "invalid"
atob(string) == string.bytes


encryptDataSaltAndIvSwapped(data, password, salt, iv) ==
  [encrypted |-> btoa(Encrypt(deriveKey(password, salt), iv, data)),
   salt |-> btoa(iv),
   iv |-> btoa(salt)]

\* salt and iv are the values crypto.getRandomValues drew
encryptData(data, password, salt, iv) ==
  [encrypted |-> btoa(Encrypt(deriveKey(password, salt), iv, data)),
   salt |-> btoa(salt),
   iv |-> btoa(iv)]

decryptDataIgnoresIv(encrypted_b64, salt_b64, iv_b64, password) ==
  IF /\ AtobOK(encrypted_b64) /\ AtobOK(salt_b64) /\ AtobOK(iv_b64)
     /\ atob(encrypted_b64).cipher = "AES-GCM"
     /\ atob(encrypted_b64).key = deriveKey(password, atob(salt_b64))
  THEN [ok |-> TRUE, text |-> atob(encrypted_b64).plaintext]
  ELSE [ok |-> FALSE, text |-> <<>>]

\* [ok, text]: ok = FALSE stands for the Error thrown
decryptData(encrypted_b64, salt_b64, iv_b64, password) ==
  IF /\ AtobOK(encrypted_b64) /\ AtobOK(salt_b64) /\ AtobOK(iv_b64)
     /\ DecryptOK(deriveKey(password, atob(salt_b64)), atob(iv_b64),
                  atob(encrypted_b64))
  THEN [ok |-> TRUE, text |-> atob(encrypted_b64).plaintext]
  ELSE [ok |-> FALSE, text |-> <<>>]

(***************************************************************************)
(* downloadSession: the text handed to browser.downloads.download          *)
(***************************************************************************)
WithSignature(sessionData, signature) ==
  [k \in DOMAIN sessionData \cup {"signature"} |->
     IF k = "signature" THEN signature ELSE sessionData[k]]

downloadSessionSignsAfterAssign(sessionData, options, salt, iv) ==
  IF options.secureMode /\ options.password # NoPassword
  THEN LET encrypted == encryptData(JSONstringify(sessionData), options.password, salt, iv)
       IN JSONstringify(
            [version |-> "1.0", format |-> "sportab", encrypted |-> TRUE,
             algorithm |-> "AES-GCM", salt |-> encrypted.salt, iv |-> encrypted.iv,
             data |-> encrypted.encrypted,
             signature |-> generateHMAC(encrypted.encrypted, options.password)])
  ELSE JSONstringify(WithSignature(sessionData,
         generateHash(JSONstringify(WithSignature(sessionData, SigGarbage)))))

downloadSession(sessionData, options, salt, iv) ==
  IF options.secureMode /\ options.password # NoPassword
  THEN LET jsonString == JSONstringify(sessionData)
           encrypted == encryptData(jsonString, options.password, salt, iv)
           finalData ==
             [version |-> "1.0", format |-> "sportab", encrypted |-> TRUE,
              algorithm |-> "AES-GCM", salt |-> encrypted.salt, iv |-> encrypted.iv,
              data |-> encrypted.encrypted,
              signature |-> generateHMAC(encrypted.encrypted, options.password)]
       IN JSONstringify(finalData)
  ELSE LET jsonString == JSONstringify(sessionData)
           finalData == WithSignature(sessionData, generateHash(jsonString))
       IN JSONstringify(finalData)

(***************************************************************************)
(* decryptSession                                                          *)
(***************************************************************************)
ErrNotEncrypted == "Session is not encrypted"
ErrInvalidPassword == "Invalid password or corrupted file"
ErrDecryptionFailed == "Decryption failed - invalid password or corrupted file"

Failure(error, calls) ==
  [success |-> FALSE, error |-> error, session |-> NoSession, calls |-> calls,
   text |-> <<>>]

\* a field the file may lack reads as undefined
FieldOr(obj, key, default) == IF key \in DOMAIN obj THEN obj[key] ELSE default

B64Missing == [form |-> "invalid", bytes |-> ""]
B64MissingData == [form |-> "invalid", bytes |-> CipherGarbage]

decryptSessionDecryptsFirst(options, data) ==
  LET sessionData == data.sessionData
      password == options.password
      dec == decryptData(FieldOr(sessionData, "data", B64MissingData),
                         FieldOr(sessionData, "salt", B64Missing),
                         FieldOr(sessionData, "iv", B64Missing), password)
  IN IF ~HasTrue(sessionData, "encrypted") THEN Failure(ErrNotEncrypted, <<>>)
     ELSE IF ~dec.ok THEN Failure(ErrDecryptionFailed, <<"decryptData">>)
     ELSE IF ~verifyHMAC(FieldOr(sessionData, "data", B64MissingData),
                         FieldOr(sessionData, "signature", SigGarbage), password)
          THEN Failure(ErrInvalidPassword, <<"decryptData", "verifyHMAC">>)
     ELSE [success |-> TRUE, error |-> "", session |-> JSONparse(dec.text),
           calls |-> <<"decryptData", "verifyHMAC">>, text |-> dec.text]

\* the response, with the calls made in order and the text decryptData returned
decryptSession(options, data) ==
  LET sessionData == data.sessionData
      password == options.password
  IN IF ~HasTrue(sessionData, "encrypted") THEN Failure(ErrNotEncrypted, <<>>)
     ELSE IF ~verifyHMAC(FieldOr(sessionData, "data", B64MissingData),
                         FieldOr(sessionData, "signature", SigGarbage), password)
          THEN Failure(ErrInvalidPassword, <<"verifyHMAC">>)
     ELSE LET dec == decryptData(FieldOr(sessionData, "data", B64MissingData),
                                 FieldOr(sessionData, "salt", B64Missing),
                                 FieldOr(sessionData, "iv", B64Missing), password)
          IN IF ~dec.ok
             THEN Failure(ErrDecryptionFailed, <<"verifyHMAC", "decryptData">>)
             ELSE [success |-> TRUE, error |-> "", session |-> JSONparse(dec.text),
                   calls |-> <<"verifyHMAC", "decryptData">>, text |-> dec.text]

(***************************************************************************)
(* Initial values of the parts a specification leaves alone                *)
(***************************************************************************)

SealIdle ==
  /\ sSealed = [password |-> NoPassword, session |-> NoSession, text |-> <<>>]
  /\ sFile = <<>>
  /\ sChanged = "none"
  /\ sOpen = [opened |-> FALSE, password |-> NoPassword, sessionData |-> NoSession,
        response |-> Failure("", <<>>)]

NoFile == [extension |-> "", text |-> <<>>, edited |-> FALSE]
NoExport == [action |-> "none", success |-> FALSE, error |-> "", tabCount |-> 0]
NoResponse ==
  [success |-> FALSE, error |-> "", windowCount |-> 0, tabCount |-> 0]
PageLoaded ==
  [currentSession |-> NoSession, selectedTabs |-> <<>>, source |-> "none",
   listed |-> <<>>, checked |-> {}, headers |-> {},
   tabListShown |-> FALSE, decryptShown |-> FALSE, decryptDisabled |-> FALSE,
   importDisabled |-> FALSE, status |-> ""]
ImportIdle ==
  [pc |-> "idle", session |-> NoSession, restoreIncognito |-> FALSE, next |-> 0,
   createdWindows |-> 0, createdTabs |-> 0, response |-> NoResponse]

PipeIdle ==
  /\ hostWindows = <<>>
  /\ disk = NoFile
  /\ exported = NoExport
  /\ page = PageLoaded
  /\ imp = ImportIdle
  /\ created = <<>>

BuildIdle ==
  /\ bWindows = <<>>
  /\ bMetadata = [name |-> "", privacyMode |-> FALSE, secureMode |-> FALSE]
  /\ bSession = NoSession
  /\ bBy = "none"

SelIdle ==
  /\ xView = "export-main"
  /\ xTabs = <<>>
  /\ xSelected = <<>>
  /\ xSession = NoSession
  /\ xMetadata = [name |-> "", privacyMode |-> FALSE, secureMode |-> FALSE]
  /\ xDom = [tabs |-> {}, windows |-> {}, confirmDisabled |-> TRUE,
             requests |-> <<>>, timers |-> 0]

ListenIdle ==
  lsn = [pc |-> "idle", sender |-> "", message |-> [action |-> ""],
         handler |-> "none", step |-> "none", timer |-> "unset",
         responses |-> <<>>]

(***************************************************************************)
(* SpecBuild: createSession applied to every bounded list of raw windows   *)
(***************************************************************************)

\* the metadata an export handler passes: the counts are those of the raw
\* windows, taken before any tab is filtered out
WithCallerCounts(metadata, windows) ==
  [name |-> metadata.name,
   tabCount |-> TabCountOf(windows),
   windowCount |-> Len(windows),
   privacyMode |-> metadata.privacyMode,
   secureMode |-> metadata.secureMode]

InitBuild ==
  /\ \E n \in 0..MaxWindows, k \in 0..MaxTabs :
       \E flags \in [1..n -> WindowFlags], tabs \in [1..k -> {TabA, TabB, TabScript,
             [url |-> [lead |-> "", scheme |-> "JAVASCRIPT", host |-> "alert(1)", path |-> "",
             query |-> <<>>], title |-> "S", pinned |-> FALSE, favIconUrl |-> NoFavicon],
             [url |-> [lead |-> "", scheme |-> "about", host |-> "blank", path |-> "",
             query |-> <<>>], title |-> "New Tab", pinned |-> FALSE, favIconUrl |-> NoFavicon],
             TabD}],
          owner \in [1..k -> 1..n] :
         /\ Adjacent(owner)
         /\ bWindows = WindowList(flags, tabs, owner)
  /\ bMetadata \in {WithCallerCounts(m, bWindows) : m \in {[name |-> "All Windows Session",
        privacyMode |-> p, secureMode |-> s] : p \in BOOLEAN, s \in BOOLEAN}}
  /\ bSession = NoSession
  /\ bBy = "none"
  /\ SealIdle
  /\ PipeIdle
  /\ SelIdle
  /\ ListenIdle

CreateSession ==
  /\ bBy = "none"
  /\ bSession' = createSession(bWindows, bMetadata)
  /\ bBy' = "background"
  /\ UNCHANGED <<bWindows, bMetadata, sealVars, pipeVars, selVars, listenVars>>

CreateSessionExportOnly ==
  /\ bBy = "none"
  /\ bSession' = createSessionExportOnly(bWindows, bMetadata)
  /\ bBy' = "background-export-only"
  /\ UNCHANGED <<bWindows, bMetadata, sealVars, pipeVars, selVars, listenVars>>

NextBuild == CreateSession \/ CreateSessionExportOnly

SpecBuild == InitBuild /\ [][NextBuild]_vars

(***************************************************************************)
(* SpecSeal: a session is sealed into a .sportab file, one field of the    *)
(* file may be changed, and the file is opened with some password          *)
(***************************************************************************)

InitSeal == BuildIdle /\ SealIdle /\ PipeIdle /\ SelIdle /\ ListenIdle

\* an export with secureMode and a password: downloadSession writes the file
Seal ==
  /\ sFile = <<>>
  /\ \E session \in {createSession(ExampleWindows, [name |-> "Current Window Session",
        privacyMode |-> FALSE, secureMode |-> TRUE]), createSession(<<[focused |-> FALSE,
        incognito |-> TRUE, tabs |-> <<TabB>>]>>, [name |-> "Current Window Session",
        privacyMode |-> TRUE, secureMode |-> TRUE])}, password \in Passwords \ {NoPassword},
        salt \in {"salt1", "salt2"}, iv \in {"iv1", "iv2"} :
       LET text == downloadSession(session,
                     [privacyMode |-> session.metadata.privacy_mode,
                      secureMode |-> TRUE, password |-> password], salt, iv)
       IN /\ sFile' = text
          /\ sSealed' = [password |-> password, session |-> session, text |-> text]
  /\ UNCHANGED <<sChanged, sOpen, buildVars, pipeVars, selVars, listenVars>>

ReplaceValue(text, key, value) ==
  [i \in 1..Len(text) |-> IF text[i][1] = key THEN <<key, value>> ELSE text[i]]

RemoveKey(text, key) == SelectSeq(text, LAMBDA pair : pair[1] # key)

Respelled(string) == [form |-> "respelled", bytes |-> string.bytes]
NotBase64(string) == [form |-> "invalid", bytes |-> string.bytes]

\* the values a changed file may hold in a field
Replacements(file, key) ==
  CASE key = "data" ->
         {Respelled(file.data), NotBase64(file.data), btoa(CipherGarbage),
          btoa(Encrypt(deriveKey(PwB, "salt1"), "iv1", <<>>))}
    [] key = "signature" ->
         {SigGarbage, generateHMAC(file.data, PwA), generateHMAC(file.data, PwB)}
    [] key = "salt" ->
         {Respelled(file.salt), NotBase64(file.salt), btoa("salt1"), btoa("salt2")}
    [] key = "iv" ->
         {Respelled(file.iv), NotBase64(file.iv), btoa("iv1"), btoa("iv2")}
    [] key = "algorithm" -> {"AES-CBC"}
    [] key = "encrypted" -> {FALSE}

\* the file is edited or corrupted in one field
ChangeField ==
  /\ sFile # <<>>
  /\ sChanged = "none"
  /\ \E key \in {"data", "signature", "salt", "iv", "algorithm", "encrypted"} :
       \E value \in Replacements(JSONparse(sFile), key) :
         /\ value # JSONparse(sFile)[key]
         /\ sFile' = ReplaceValue(sFile, key, value)
         /\ sChanged' = key
  /\ UNCHANGED <<sSealed, sOpen, buildVars, pipeVars, selVars, listenVars>>

\* the file loses its salt or its iv
DropField ==
  /\ sFile # <<>>
  /\ sChanged = "none"
  /\ \E key \in {"salt", "iv"} :
       /\ sFile' = RemoveKey(sFile, key)
       /\ sChanged' = key
  /\ UNCHANGED <<sSealed, sOpen, buildVars, pipeVars, selVars, listenVars>>

\* the decrypt-session message: the page sends the parsed file and a password
Open ==
  /\ sFile # <<>>
  /\ \E password \in Passwords :
       LET sessionData == JSONparse(sFile)
       IN sOpen' = [opened |-> TRUE, password |-> password,
                    sessionData |-> sessionData,
                    response |-> decryptSession([password |-> password],
                                                [sessionData |-> sessionData])]
  /\ UNCHANGED <<sSealed, sFile, sChanged, buildVars, pipeVars, selVars, listenVars>>

NextSeal == Seal \/ ChangeField \/ DropField \/ Open

SpecSeal == InitSeal /\ [][NextSeal]_vars

(***************************************************************************)
(* Export handlers of the background script                                *)
(***************************************************************************)
ExportOptions ==
  {[privacyMode |-> p, secureMode |-> m, password |-> w] :
     p \in BOOLEAN, m \in BOOLEAN, w \in {NoPassword, PwA}}


\* the file a handler has downloadSession write
Written(session, options, salt, iv) ==
  [extension |-> (IF options.secureMode THEN "sportab" ELSE "portab"),
   text |-> downloadSession(session, options, salt, iv),
   edited |-> FALSE]

\* [response, file]: what the handler returns and what it downloads
exportCurrentWindow(options, currentWindow, salt, iv) ==
  IF currentWindow.tabs = <<>>
  THEN [response |-> [action |-> "export-current", success |-> FALSE,
                      error |-> "No tabs found in current window", tabCount |-> 0],
        file |-> NoFile]
  ELSE LET session == createSession(<<currentWindow>>,
                        [name |-> "Current Window Session",
                         tabCount |-> Len(currentWindow.tabs),
                         windowCount |-> 1,
                         privacyMode |-> options.privacyMode,
                         secureMode |-> options.secureMode])
       IN [response |-> [action |-> "export-current", success |-> TRUE, error |-> "",
                         tabCount |-> session.metadata.tab_count],
           file |-> Written(session, options, salt, iv)]

exportAllWindows(options, allWindows, salt, iv) ==
  IF allWindows = <<>>
  THEN [response |-> [action |-> "export-all", success |-> FALSE,
                      error |-> "No windows found", tabCount |-> 0],
        file |-> NoFile]
  ELSE LET session == createSession(allWindows,
                        [name |-> "All Windows Session",
                         tabCount |-> TabCountOf(allWindows),
                         windowCount |-> Len(allWindows),
                         privacyMode |-> options.privacyMode,
                         secureMode |-> options.secureMode])
       IN [response |-> [action |-> "export-all", success |-> TRUE, error |-> "",
                         tabCount |-> session.metadata.tab_count],
           file |-> Written(session, options, salt, iv)]

RECURSIVE PinnedWindows(_)
\* allWindows.map(win => ({...win, tabs: pinned tabs})).filter(non-empty)
PinnedWindows(allWindows) ==
  IF allWindows = <<>> THEN <<>>
  ELSE LET win == Head(allWindows)
           tabs == FilterSeq(win.tabs, {t \in Range(win.tabs) : t.pinned})
       IN IF tabs = <<>> THEN PinnedWindows(Tail(allWindows))
          ELSE <<[win EXCEPT !.tabs = tabs]>> \o PinnedWindows(Tail(allWindows))

exportPinnedTabs(options, allWindows, salt, iv) ==
  LET pinnedWindows == PinnedWindows(allWindows)
  IN IF pinnedWindows = <<>>
     THEN [response |-> [action |-> "export-pinned", success |-> FALSE,
                         error |-> "No pinned tabs found", tabCount |-> 0],
           file |-> NoFile]
     ELSE LET session == createSession(pinnedWindows,
                           [name |-> "Pinned Tabs Session",
                            tabCount |-> TabCountOf(pinnedWindows),
                            windowCount |-> Len(pinnedWindows),
                            privacyMode |-> options.privacyMode,
                            secureMode |-> options.secureMode])
          IN [response |-> [action |-> "export-pinned", success |-> TRUE, error |-> "",
                            tabCount |-> session.metadata.tab_count],
              file |-> Written(session, options, salt, iv)]

(***************************************************************************)
(* The import page                                                         *)
(***************************************************************************)
WindowsOf(session) == FieldOr(session, "windows", <<>>)

RECURSIVE TabIdsFrom(_, _)
\* renderTabList: the ids `${windowKey}-${tabIndex}` in the order it adds them
TabIdsFrom(windows, i) ==
  IF i > Len(windows) THEN <<>>
  ELSE [j \in 1..Len(windows[i].tabs) |-> <<windows[i].key, j - 1>>]
       \o TabIdsFrom(windows, i + 1)

\* container.innerHTML = '' and selectedTabs.clear(); then a section for each
\* window that has tabs, its header checkbox and every tab checkbox checked:
\* listed is the key and the number of tab checkboxes of each section
renderTabList(p, session) ==
  LET shown == SelectSeq(WindowsOf(session), LAMBDA w : w.tabs # <<>>)
  IN [p EXCEPT !.selectedTabs = TabIdsFrom(WindowsOf(session), 1),
               !.listed = [i \in 1..Len(shown) |->
                             [key |-> shown[i].key, count |-> Len(shown[i].tabs)]],
               !.checked = Range(TabIdsFrom(WindowsOf(session), 1)),
               !.headers = {shown[i].key : i \in 1..Len(shown)},
               !.tabListShown = TRUE]

processSession(p, sessionData, source) ==
  IF HasTrue(sessionData, "encrypted")
  THEN [p EXCEPT !.currentSession = sessionData, !.source = source,
                 !.decryptShown = TRUE]
  ELSE renderTabList([p EXCEPT !.currentSession = sessionData, !.source = source],
                     sessionData)

handleDecryptAssignsOnFailure(p, password) ==
  IF password = NoPassword THEN [p EXCEPT !.status = "Password required!"]
  ELSE LET response == decryptSession([password |-> password],
                                      [sessionData |-> p.currentSession])
       IN IF response.success
          THEN renderTabList([p EXCEPT !.currentSession = response.session,
                                       !.decryptShown = FALSE,
                                       !.decryptDisabled = TRUE,
                                       !.status = "Decrypted successfully!"],
                             response.session)
          ELSE [p EXCEPT !.currentSession = response.session,
                         !.status = response.error, !.decryptDisabled = FALSE]

\* the page after the background's answer to decrypt-session
handleDecrypt(p, password) ==
  IF password = NoPassword THEN [p EXCEPT !.status = "Password required!"]
  ELSE LET response == decryptSession([password |-> password],
                                      [sessionData |-> p.currentSession])
       IN IF response.success
          THEN renderTabList([p EXCEPT !.currentSession = response.session,
                                       !.decryptShown = FALSE,
                                       !.decryptDisabled = TRUE,
                                       !.status = "Decrypted successfully!"],
                             response.session)
          ELSE [p EXCEPT !.status = response.error, !.decryptDisabled = FALSE]

WindowByKey(windows, key) ==
  windows[CHOOSE i \in 1..Len(windows) : windows[i].key = key]

HasWindow(windows, key) == \E i \in 1..Len(windows) : windows[i].key = key

RECURSIVE SelectedKeys(_)
\* the window keys of the selection, each at its first occurrence
SelectedKeys(sel) ==
  IF sel = <<>> THEN <<>>
  ELSE LET rest == SelectedKeys(SubSeq(sel, 1, Len(sel) - 1))
           key == sel[Len(sel)][1]
       IN IF key \in Range(rest) THEN rest ELSE Append(rest, key)

RECURSIVE SelectedTabsOf(_, _, _)
\* the tabs pushed for window key, in the order the selection is walked
SelectedTabsOf(sel, key, tabs) ==
  IF sel = <<>> THEN <<>>
  ELSE IF Head(sel)[1] = key
       THEN <<tabs[Head(sel)[2] + 1]>> \o SelectedTabsOf(Tail(sel), key, tabs)
       ELSE SelectedTabsOf(Tail(sel), key, tabs)

\* handleImport(false) throws: a selected id names no window or no tab of
\* currentSession
SelectionThrows(currentSession, sel) ==
  \E i \in 1..Len(sel) :
    \/ ~HasWindow(WindowsOf(currentSession), sel[i][1])
    \/ sel[i][2] + 1 > Len(WindowByKey(WindowsOf(currentSession), sel[i][1]).tabs)

\* sessionToImport of handleImport
SessionToImport(currentSession, sel, importAll) ==
  IF importAll THEN currentSession
  ELSE LET keys == SelectedKeys(sel)
           windows ==
             [i \in 1..Len(keys) |->
                LET window == WindowByKey(WindowsOf(currentSession), keys[i])
                IN [window EXCEPT !.tabs = SelectedTabsOf(sel, keys[i], window.tabs)]]
       IN [k \in DOMAIN currentSession \cup {"windows"} |->
             IF k = "windows" THEN windows ELSE currentSession[k]]

(***************************************************************************)
(* importSession                                                           *)
(***************************************************************************)

ImportURLsValidFirstWindowOnly(session) ==
  session.windows = <<>> \/
    \A j \in 1..Len(session.windows[1].tabs) :
      isValidURL(session.windows[1].tabs[j].url)

\* the loop over session.windows that throws on the first invalid URL
ImportURLsValid(session) ==
  \A i \in 1..Len(session.windows) :
    \A j \in 1..Len(session.windows[i].tabs) :
      isValidURL(session.windows[i].tabs[j].url)

RECURSIVE NextToCreate(_, _)
\* the next window from index i on with urls.length > 0, or 0
NextToCreate(windows, i) ==
  IF i > Len(windows) THEN 0
  ELSE IF windows[i].tabs # <<>> THEN i ELSE NextToCreate(windows, i + 1)

ImportFailed(session, error) ==
  [pc |-> "done", session |-> session, restoreIncognito |-> FALSE, next |-> 0,
   createdWindows |-> 0, createdTabs |-> 0,
   response |-> [success |-> FALSE, error |-> error, windowCount |-> 0,
                 tabCount |-> 0]]

ImportSucceeded(s) ==
  [s EXCEPT !.pc = "done", !.next = 0,
            !.response = [success |-> TRUE, error |-> "",
                          windowCount |-> s.createdWindows,
                          tabCount |-> s.createdTabs]]

\* importSession up to its first browser.windows.create
importSession(options, data) ==
  LET session == data.session
  IN IF "windows" \notin DOMAIN session THEN ImportFailed(session, "Invalid session data")
     ELSE IF ~ImportURLsValid(session) THEN ImportFailed(session, "Invalid URL detected")
     ELSE LET started == [pc |-> "creating", session |-> session,
                          restoreIncognito |-> options.restoreIncognito,
                          next |-> NextToCreate(session.windows, 1),
                          createdWindows |-> 0, createdTabs |-> 0,
                          response |-> NoResponse]
          IN IF started.next = 0 THEN ImportSucceeded(started) ELSE started

\* browser.tabs.update(id, {pinned: true}): the browser keeps the pinned tabs
\* of a window in front of the others, so the tab moves behind the last
\* pinned tab
PinTab(tabs, id) ==
  LET k == CHOOSE x \in 1..Len(tabs) : tabs[x].id = id
      n == Cardinality({x \in 1..Len(tabs) : tabs[x].pinned})
      others == SelectSeq(tabs, LAMBDA t : t.id # id)
  IN IF tabs[k].pinned THEN tabs
     ELSE SubSeq(others, 1, n) \o <<[tabs[k] EXCEPT !.pinned = TRUE]>>
          \o SubSeq(others, n + 1, Len(others))

RECURSIVE ApplyPinned(_, _, _)
\* the loop over windowData.tabs that pins tabs[i] when windowData.tabs[i] is
\* pinned; tabs[i] is the tab windows.create opened for urls[i]
ApplyPinned(tabs, windowData, i) ==
  IF i > Len(windowData.tabs) THEN tabs
  ELSE ApplyPinned(IF windowData.tabs[i].pinned THEN PinTab(tabs, i) ELSE tabs,
                   windowData, i + 1)

CreatedWindowAlwaysRestoresIncognito(windowData, restoreIncognito) ==
  [tabs |-> ApplyPinned([j \in 1..Len(windowData.tabs) |->
                           [id |-> j, url |-> windowData.tabs[j].url,
                            pinned |-> FALSE]],
                        windowData, 1),
   incognito |-> FieldOr(windowData, "incognito", FALSE),
   focused |-> windowData.active]

\* the browser window that windows.create and tabs.update leave behind: its
\* tabs in their order in the window, id being the place in urls
CreatedWindow(windowData, restoreIncognito) ==
  [tabs |-> ApplyPinned([j \in 1..Len(windowData.tabs) |->
                           [id |-> j, url |-> windowData.tabs[j].url,
                            pinned |-> FALSE]],
                        windowData, 1),
   incognito |-> FieldOr(windowData, "incognito", FALSE) /\ restoreIncognito,
   focused |-> windowData.active]

\* one turn of the loop that creates windows, and the return after the last
importSessionContinue(s) ==
  LET windowData == s.session.windows[s.next]
      after == [s EXCEPT !.createdWindows = @ + 1,
                         !.createdTabs = @ + Len(windowData.tabs),
                         !.next = NextToCreate(s.session.windows, s.next + 1)]
  IN IF after.next = 0 THEN ImportSucceeded(after) ELSE after

ImportClickedMovesTabs(p, sessionToImport) ==
  [p EXCEPT !.importDisabled = TRUE, !.status = "Importing session...",
            !.currentSession = sessionToImport]

\* the page once handleImport has built sessionToImport and sent it: the
\* buttons are disabled and the status shown; sessionToImport is a new object
\* with new tabs arrays, so currentSession is as it was
ImportClicked(p, sessionToImport) ==
  [p EXCEPT !.importDisabled = TRUE, !.status = "Importing session..."]

ImportAnsweredAlwaysEnables(p, response) ==
  IF response.success
  THEN [p EXCEPT !.status = "Restored", !.importDisabled = FALSE]
  ELSE [p EXCEPT !.status = response.error, !.importDisabled = FALSE]

\* the page after the background's answer to import-session
ImportAnswered(p, response) ==
  IF response.success
  THEN [p EXCEPT !.status = "Restored"]
  ELSE [p EXCEPT !.status = response.error, !.importDisabled = FALSE]

(***************************************************************************)
(* Spec: export to a file, the file possibly edited, the import page        *)
(***************************************************************************)

Init ==
  /\ \E n \in 0..MaxWindows, k \in 0..MaxHostTabs :
       \E flags \in [1..n -> WindowFlags], tabs \in [1..k -> {TabA, TabB, TabScript}],
          owner \in [1..k -> 1..n] :
         /\ Adjacent(owner)
         /\ hostWindows = WindowList(flags, tabs, owner)
  /\ disk = NoFile
  /\ exported = NoExport
  /\ page = PageLoaded
  /\ imp = ImportIdle
  /\ created = <<>>
  /\ BuildIdle
  /\ SealIdle
  /\ SelIdle
  /\ ListenIdle

\* what the two calls of getRandomValues of one export draw
Draws == {[salt |-> "salt1", iv |-> "iv1"], [salt |-> "salt2", iv |-> "iv2"]}

ExportCurrentWindow ==
  /\ exported = NoExport
  /\ \E options \in ExportOptions, i \in 1..Len(hostWindows), drawn \in Draws :
       LET done == exportCurrentWindow(options, hostWindows[i], drawn.salt, drawn.iv)
       IN exported' = done.response /\ disk' = done.file
  /\ UNCHANGED <<hostWindows, page, imp, created, buildVars, sealVars, selVars, listenVars>>

ExportAllWindows ==
  /\ exported = NoExport
  /\ \E options \in ExportOptions, drawn \in Draws :
       LET done == exportAllWindows(options, hostWindows, drawn.salt, drawn.iv)
       IN exported' = done.response /\ disk' = done.file
  /\ UNCHANGED <<hostWindows, page, imp, created, buildVars, sealVars, selVars, listenVars>>

ExportPinnedTabs ==
  /\ exported = NoExport
  /\ \E options \in ExportOptions, drawn \in Draws :
       LET done == exportPinnedTabs(options, hostWindows, drawn.salt, drawn.iv)
       IN exported' = done.response /\ disk' = done.file
  /\ UNCHANGED <<hostWindows, page, imp, created, buildVars, sealVars, selVars, listenVars>>

\* the edits of a plain file: a tab's URL, a tab's title, the session's name
Edits(file) ==
  {[file EXCEPT !.metadata.name = "Edited"]}
  \cup (IF file.windows = <<>> THEN {}
        ELSE {[file EXCEPT !.windows[1].tabs[1].title = "Edited"],
              [file EXCEPT !.windows[Len(file.windows)].tabs[1].url = TabScript.url]})

\* somebody edits the exported plain file, before it is chosen on the import
\* page, and leaves its signature as it is
EditFile ==
  /\ disk.text # <<>>
  /\ ~disk.edited
  /\ page = PageLoaded
  /\ "windows" \in DOMAIN JSONparse(disk.text)
  /\ \E file \in Edits(JSONparse(disk.text)) :
       disk' = [disk EXCEPT !.text = JSONstringify(file), !.edited = TRUE]
  /\ UNCHANGED <<hostWindows, exported, page, imp, created, buildVars, sealVars, selVars,
        listenVars>>

\* handleFileSelect: the reader's onload parses the file and processes it
HandleFileSelect ==
  /\ disk.text # <<>>
  /\ page' = processSession(page, JSONparse(disk.text),
                            IF disk.edited THEN "edited" ELSE "written")
  /\ UNCHANGED <<hostWindows, disk, exported, imp, created, buildVars, sealVars, selVars,
        listenVars>>

\* handleDecrypt, with the answer to its decrypt-session message
HandleDecrypt ==
  /\ page.decryptShown
  /\ ~page.decryptDisabled
  /\ \E password \in {NoPassword, PwA, PwB} :
       page' = handleDecrypt(page, password)
  /\ UNCHANGED <<hostWindows, disk, exported, imp, created, buildVars, sealVars, selVars,
        listenVars>>

\* handleImport: the click, the message, and importSession up to its first await
HandleImport ==
  /\ page.tabListShown
  /\ ~page.importDisabled
  /\ \E importAll \in BOOLEAN, restoreIncognito \in BOOLEAN :
       IF ~importAll /\ SelectionThrows(page.currentSession, page.selectedTabs)
       THEN /\ page' = [page EXCEPT !.status = "TypeError"]
            /\ imp' = imp
       ELSE LET started == importSession(
                  [restoreIncognito |-> restoreIncognito],
                  [session |-> SessionToImport(page.currentSession,
                                               page.selectedTabs, importAll)])
            IN /\ imp' = started
               /\ page' = IF started.pc = "done"
                          THEN ImportAnswered(ImportClicked(page, started.session),
                                              started.response)
                          ELSE ImportClicked(page, started.session)
  /\ UNCHANGED <<hostWindows, disk, exported, created, buildVars, sealVars, selVars, listenVars>>

\* importSession resumes: one window is created and its pinned tabs pinned
ImportRestoreWindow ==
  /\ imp.pc = "creating"
  /\ created' = Append(created, CreatedWindow(imp.session.windows[imp.next],
                                              imp.restoreIncognito))
  /\ imp' = importSessionContinue(imp)
  /\ page' = IF imp'.pc = "done" THEN ImportAnswered(page, imp'.response) ELSE page
  /\ UNCHANGED <<hostWindows, disk, exported, buildVars, sealVars, selVars, listenVars>>

Next ==
  \/ ExportCurrentWindow
  \/ ExportAllWindows
  \/ ExportPinnedTabs
  \/ EditFile
  \/ HandleFileSelect
  \/ HandleDecrypt
  \/ HandleImport
  \/ ImportRestoreWindow

Spec == Init /\ [][Next]_vars

(***************************************************************************)
(* createSessionFromSelectedTabs and exportSelectedTabs                    *)
(***************************************************************************)
RECURSIVE SortedKeys(_)
\* Object.keys of an object whose keys are array indices: ascending order,
\* whatever the order the keys were inserted in
SortedKeys(S) ==
  IF S = {} THEN <<>>
  ELSE LET least == CHOOSE x \in S : \A y \in S : x <= y
       IN <<least>> \o SortedKeys(S \ {least})

RECURSIVE TabsPushed(_, _)
\* tabsByWindow[windowIndex]: the tabs pushed for it, in the order of the items
TabsPushed(selectedTabsData, windowIndex) ==
  IF selectedTabsData = <<>> THEN <<>>
  ELSE IF Head(selectedTabsData).windowIndex = windowIndex
       THEN <<Head(selectedTabsData).tab>>
            \o TabsPushed(Tail(selectedTabsData), windowIndex)
       ELSE TabsPushed(Tail(selectedTabsData), windowIndex)

BuildSelectedTabSecureSanitizes(tab, tabIndex, metadata) ==
  LET url1 == IF metadata.privacyMode \/ metadata.secureMode
              THEN sanitizeURL(tab.url) ELSE tab.url
      title0 == IF tab.title = "" THEN "Untitled" ELSE tab.title
      title1 == IF metadata.privacyMode THEN "[Private]" ELSE title0
      title2 == IF metadata.secureMode THEN "[Secure - Hidden]" ELSE title1
  IN [id |-> tabIndex, url |-> url1, title |-> title2, pinned |-> tab.pinned,
      group_id |-> "null"]

\* validTabs.map(...) of createSessionFromSelectedTabs
BuildSelectedTab(tab, tabIndex, metadata) ==
  LET url1 == IF metadata.privacyMode THEN sanitizeURL(tab.url) ELSE tab.url
      title0 == IF tab.title = "" THEN "Untitled" ELSE tab.title
      title1 == IF metadata.privacyMode THEN "[Private]" ELSE title0
      title2 == IF metadata.secureMode THEN "[Secure - Hidden]" ELSE title1
  IN [id |-> tabIndex, url |-> url1, title |-> title2, pinned |-> tab.pinned,
      group_id |-> "null"]

RECURSIVE BuildSelectedWindowsFirstIncognito(_, _, _, _)
BuildSelectedWindowsFirstIncognito(selectedTabsData, keys, idx, metadata) ==
  IF idx > Len(keys) THEN <<>>
  ELSE LET tabs == TabsPushed(selectedTabsData, keys[idx])
           validTabs == FilterSeq(tabs, {t \in Range(tabs) : isValidURL(t.url)})
       IN IF validTabs = <<>>
          THEN BuildSelectedWindowsFirstIncognito(selectedTabsData, keys, idx + 1,
                                                  metadata)
          ELSE <<[key |-> idx,
                  active |-> idx = 1,
                  incognito |-> idx = 1,
                  tabs |-> [i \in 1..Len(validTabs) |->
                              BuildSelectedTab(validTabs[i], i, metadata)]]>>
               \o BuildSelectedWindowsFirstIncognito(selectedTabsData, keys, idx + 1,
                                                     metadata)

RECURSIVE BuildSelectedWindowsKeepsEmpty(_, _, _, _)
BuildSelectedWindowsKeepsEmpty(selectedTabsData, keys, idx, metadata) ==
  IF idx > Len(keys) THEN <<>>
  ELSE LET tabs == TabsPushed(selectedTabsData, keys[idx])
           validTabs == FilterSeq(tabs, {t \in Range(tabs) : isValidURL(t.url)})
       IN <<[key |-> idx,
             active |-> idx = 1,
             incognito |-> FALSE,
             tabs |-> [i \in 1..Len(validTabs) |->
                         BuildSelectedTab(validTabs[i], i, metadata)]]>>
          \o BuildSelectedWindowsKeepsEmpty(selectedTabsData, keys, idx + 1, metadata)

RECURSIVE BuildSelectedWindows(_, _, _, _)
\* Object.keys(tabsByWindow).forEach((windowIndex, idx) => ...): idx counts
\* from 1 here, so the key window_${idx + 1} is idx and idx === 0 is idx = 1
BuildSelectedWindows(selectedTabsData, keys, idx, metadata) ==
  IF idx > Len(keys) THEN <<>>
  ELSE LET tabs == TabsPushed(selectedTabsData, keys[idx])
           validTabs == FilterSeq(tabs, {t \in Range(tabs) : isValidURL(t.url)})
       IN IF validTabs = <<>>
          THEN BuildSelectedWindows(selectedTabsData, keys, idx + 1, metadata)
          ELSE <<[key |-> idx,
                  active |-> idx = 1,
                  incognito |-> FALSE,
                  tabs |-> [i \in 1..Len(validTabs) |->
                              BuildSelectedTab(validTabs[i], i, metadata)]]>>
               \o BuildSelectedWindows(selectedTabsData, keys, idx + 1, metadata)

createSessionFromSelectedTabs(selectedTabsData, metadata) ==
  LET keys == SortedKeys({selectedTabsData[x].windowIndex :
                            x \in 1..Len(selectedTabsData)})
      windowsObj == BuildSelectedWindows(selectedTabsData, keys, 1, metadata)
  IN [version |-> "1.0",
      format |-> IF metadata.secureMode THEN "sportab" ELSE "portab",
      metadata |-> [created |-> "now",
                    name |-> IF metadata.name = "" THEN "Selected Tabs Session"
                             ELSE metadata.name,
                    source_browser |-> "firefox",
                    source_os |-> "platform",
                    tab_count |-> TabCountOf(windowsObj),
                    window_count |-> Len(windowsObj),
                    privacy_mode |-> metadata.privacyMode,
                    secure_mode |-> metadata.secureMode],
      windows |-> windowsObj,
      groups |-> <<>>]

\* new Set(selectedTabsData.map(t => t.windowIndex)).size
WindowCountOf(selectedTabsData) ==
  Cardinality({selectedTabsData[x].windowIndex : x \in 1..Len(selectedTabsData)})

\* [response, file, session, metadata]: what the handler returns and downloads,
\* the container it built and the metadata it built it with
exportSelectedTabs(options, data, salt, iv) ==
  IF data.selectedTabs = <<>>
  THEN [response |-> [action |-> "export-selected-tabs", success |-> FALSE,
                      error |-> "No tabs selected", tabCount |-> 0],
        file |-> NoFile, session |-> NoSession,
        metadata |-> [name |-> "", privacyMode |-> FALSE, secureMode |-> FALSE]]
  ELSE LET metadata == [name |-> "Selected Tabs Session",
                        tabCount |-> Len(data.selectedTabs),
                        windowCount |-> WindowCountOf(data.selectedTabs),
                        privacyMode |-> options.privacyMode,
                        secureMode |-> options.secureMode]
           session == createSessionFromSelectedTabs(data.selectedTabs, metadata)
       IN [response |-> [action |-> "export-selected-tabs", success |-> TRUE,
                         error |-> "", tabCount |-> session.metadata.tab_count],
           file |-> Written(session, options, salt, iv),
           session |-> session, metadata |-> metadata]

(***************************************************************************)
(* The popup's list of tabs to export                                      *)
(***************************************************************************)
\* Set.prototype.add: a value already in the set keeps its place
SetAdd(set, value) == IF value \in Range(set) THEN set ELSE Append(set, value)

\* Set.prototype.delete
SetDelete(set, value) == SelectSeq(set, LAMBDA v : v # value)

\* the ids of the tab checkboxes of the section of window key that have
\* data-tab-index below count
TabBoxes(key, count) == {<<key, tabIndex>> : tabIndex \in 0..(count - 1)}

\* updateExportSelectionInfo: the confirm button is disabled exactly when the
\* set is empty
updateExportSelectionInfo(dom, selected) ==
  [dom EXCEPT !.confirmDisabled = (selected = <<>>)]

\* handleTabCheckboxChange: the user has clicked the checkbox of tab tabIndex
\* of window windowIndex, so e.target.checked is the opposite of what it was;
\* the header checkbox is then set to whether every tab checkbox of the window
\* (count of them) is checked.  [selected, dom] afterwards
handleTabCheckboxChange(selected, dom, windowIndex, tabIndex, count) ==
  LET tabId == <<windowIndex, tabIndex>>
      checked == tabId \notin dom.tabs
      boxes == IF checked THEN dom.tabs \cup {tabId} ELSE dom.tabs \ {tabId}
      after == IF checked THEN SetAdd(selected, tabId) ELSE SetDelete(selected, tabId)
  IN [selected |-> after,
      dom |-> updateExportSelectionInfo(
                [dom EXCEPT !.tabs = boxes,
                            !.windows = IF TabBoxes(windowIndex, count) \subseteq boxes
                                        THEN @ \cup {windowIndex}
                                        ELSE @ \ {windowIndex}],
                after)]

RECURSIVE CheckAll(_, _, _, _, _)
\* checkboxes.forEach of handleWindowCheckboxChange, from tab index tabIndex on
CheckAll(selected, windowIndex, tabIndex, count, checked) ==
  IF tabIndex >= count THEN selected
  ELSE CheckAll(IF checked THEN SetAdd(selected, <<windowIndex, tabIndex>>)
                ELSE SetDelete(selected, <<windowIndex, tabIndex>>),
                windowIndex, tabIndex + 1, count, checked)

handleWindowCheckboxChangeOnlyAdds(selected, dom, exportTabs, windowIndex, checked) ==
  LET count == Len(exportTabs[windowIndex + 1].tabs)
      after == IF checked THEN CheckAll(selected, windowIndex, 0, count, checked)
               ELSE selected
  IN [selected |-> after,
      dom |-> updateExportSelectionInfo(
                [dom EXCEPT !.tabs = IF checked THEN @ \cup TabBoxes(windowIndex, count)
                                     ELSE @ \ TabBoxes(windowIndex, count),
                            !.windows = IF checked THEN @ \cup {windowIndex}
                                        ELSE @ \ {windowIndex}],
                after)]

\* handleWindowCheckboxChange: the user has set the header checkbox of window
\* windowIndex to checked, and every tab checkbox of the window is set to it.
\* [selected, dom] afterwards
handleWindowCheckboxChange(selected, dom, exportTabs, windowIndex, checked) ==
  LET count == Len(exportTabs[windowIndex + 1].tabs)
      after == CheckAll(selected, windowIndex, 0, count, checked)
  IN [selected |-> after,
      dom |-> updateExportSelectionInfo(
                [dom EXCEPT !.tabs = IF checked THEN @ \cup TabBoxes(windowIndex, count)
                                     ELSE @ \ TabBoxes(windowIndex, count),
                            !.windows = IF checked THEN @ \cup {windowIndex}
                                        ELSE @ \ {windowIndex}],
                after)]

\* selectedTabsData of handleExportSelectedConfirm: one item for each id of
\* the set, in the set's insertion order
SelectedTabsData(selected, exportTabs) ==
  [x \in 1..Len(selected) |->
     [windowIndex |-> selected[x][1],
      tabIndex |-> selected[x][2],
      tab |-> exportTabs[selected[x][1] + 1].tabs[selected[x][2] + 1]]]


(***************************************************************************)
(* SpecSelect: the popup lists the browser's tabs, the user checks and     *)
(* unchecks them and confirms; the background builds and writes the file   *)
(***************************************************************************)
PickTabs == <<TabA, TabScript, TabB, [url |-> [lead |-> "", scheme |-> "https",
      host |-> "c.example", path |-> "/", query |-> <<>>], title |-> "C", pinned |-> FALSE,
      favIconUrl |-> NoFavicon]>>

RECURSIVE Subsequence(_, _)
\* the tabs of PickTabs at the positions of keep, in the order of PickTabs
Subsequence(keep, i) ==
  IF i > Len(PickTabs) THEN <<>>
  ELSE IF i \in keep THEN <<PickTabs[i]>> \o Subsequence(keep, i + 1)
       ELSE Subsequence(keep, i + 1)


InitSelect ==
  \* the browser's windows: at most MaxWindows windows, at most MaxPickTabs tabs
  /\ \E n \in 0..MaxWindows, keep \in SUBSET (1..Len(PickTabs)) :
       /\ Cardinality(keep) <= MaxPickTabs
       /\ \E flags \in [1..n -> WindowFlags],
             owner \in [1..Cardinality(keep) -> 1..n] :
            /\ Adjacent(owner)
            /\ hostWindows = WindowList(flags, Subsequence(keep, 1), owner)
  /\ disk = NoFile
  /\ exported = NoExport
  /\ page = PageLoaded
  /\ imp = ImportIdle
  /\ created = <<>>
  /\ BuildIdle
  /\ SealIdle
  /\ SelIdle
  /\ ListenIdle

\* handleExportSelectedClick: the popup reads the windows and shows the list
HandleExportSelectedClick ==
  /\ xView = "export-main"
  /\ xView' = "export-detail"
  /\ xTabs' = hostWindows
  /\ xSelected' = <<>>
  /\ xDom' = updateExportSelectionInfo([xDom EXCEPT !.tabs = {}, !.windows = {}], <<>>)
  /\ UNCHANGED <<xSession, xMetadata, buildVars, sealVars, pipeVars, listenVars>>

HandleTabCheckboxChange ==
  /\ xView = "export-detail"
  /\ exported = NoExport
  /\ \E windowIndex \in 0..(Len(xTabs) - 1) :
       \E tabIndex \in 0..(Len(xTabs[windowIndex + 1].tabs) - 1) :
         LET after == handleTabCheckboxChange(xSelected, xDom, windowIndex, tabIndex,
                                              Len(xTabs[windowIndex + 1].tabs))
         IN xSelected' = after.selected /\ xDom' = after.dom
  /\ UNCHANGED <<xView, xTabs, xSession, xMetadata, buildVars, sealVars, pipeVars, listenVars>>

HandleWindowCheckboxChange ==
  /\ xView = "export-detail"
  /\ exported = NoExport
  /\ \E windowIndex \in 0..(Len(xTabs) - 1) :
       LET after == handleWindowCheckboxChange(xSelected, xDom, xTabs, windowIndex,
                                               windowIndex \notin xDom.windows)
       IN xSelected' = after.selected /\ xDom' = after.dom
  /\ UNCHANGED <<xView, xTabs, xSession, xMetadata, buildVars, sealVars, pipeVars, listenVars>>

\* handleExportSelectedConfirm, with the background's exportSelectedTabs
HandleExportSelectedConfirm ==
  /\ xView = "export-detail"
  /\ exported = NoExport
  /\ xSelected # <<>>
  /\ \E options \in {o \in ExportOptions : IF o.secureMode THEN o.password # NoPassword ELSE o.password = NoPassword}, drawn \in Draws :
       LET done == exportSelectedTabs(
                     options, [selectedTabs |-> SelectedTabsData(xSelected, xTabs)],
                     drawn.salt, drawn.iv)
       IN /\ exported' = done.response
          /\ disk' = done.file
          /\ xSession' = done.session
          /\ xMetadata' = done.metadata
  /\ UNCHANGED <<xView, xTabs, xSelected, xDom, hostWindows, page, imp, created,
                 buildVars, sealVars, listenVars>>

\* handleExportAll: the button of the popup's main view
HandleExportAll ==
  /\ xView = "export-main"
  /\ ExportAllWindows

NextSelect ==
  \/ HandleExportAll
  \/ HandleExportSelectedClick
  \/ HandleTabCheckboxChange
  \/ HandleWindowCheckboxChange
  \/ HandleExportSelectedConfirm

SpecSelect == InitSelect /\ [][NextSelect]_vars

(***************************************************************************)
(* The import page's checkboxes                                            *)
(***************************************************************************)
handleTabCheckboxNeverChecksHeader(p, windowKey, tabIndex, count) ==
  LET tabId == <<windowKey, tabIndex>>
      checked == tabId \notin p.checked
      boxes == IF checked THEN p.checked \cup {tabId} ELSE p.checked \ {tabId}
  IN [p EXCEPT !.selectedTabs = IF checked THEN SetAdd(@, tabId)
                                ELSE SetDelete(@, tabId),
               !.checked = boxes,
               !.headers = @ \ {windowKey}]

\* handleTabCheckbox: the user has clicked the checkbox of tab tabIndex of
\* window windowKey, so e.target.checked is the opposite of what it was; the
\* header checkbox is then set to whether every tab checkbox of the section
\* (count of them) is checked
handleTabCheckbox(p, windowKey, tabIndex, count) ==
  LET tabId == <<windowKey, tabIndex>>
      checked == tabId \notin p.checked
      boxes == IF checked THEN p.checked \cup {tabId} ELSE p.checked \ {tabId}
  IN [p EXCEPT !.selectedTabs = IF checked THEN SetAdd(@, tabId)
                                ELSE SetDelete(@, tabId),
               !.checked = boxes,
               !.headers = IF TabBoxes(windowKey, count) \subseteq boxes
                           THEN @ \cup {windowKey} ELSE @ \ {windowKey}]

\* handleWindowCheckbox: the user has set the header checkbox to checked, and
\* every tab checkbox of the section (count of them) is set to it
handleWindowCheckbox(p, windowKey, checked, count) ==
  [p EXCEPT !.selectedTabs = CheckAll(@, windowKey, 0, count, checked),
            !.checked = IF checked THEN @ \cup TabBoxes(windowKey, count)
                        ELSE @ \ TabBoxes(windowKey, count),
            !.headers = IF checked THEN @ \cup {windowKey} ELSE @ \ {windowKey}]

(***************************************************************************)
(* SpecPick: all windows are exported, the file is opened on the import    *)
(* page, the user checks and unchecks tabs and imports                     *)
(***************************************************************************)
HandleTabCheckbox ==
  /\ page.tabListShown
  /\ ~page.importDisabled
  /\ \E i \in 1..Len(page.listed) :
       \E tabIndex \in 0..(page.listed[i].count - 1) :
         page' = handleTabCheckbox(page, page.listed[i].key, tabIndex,
                                   page.listed[i].count)
  /\ UNCHANGED <<hostWindows, disk, exported, imp, created, buildVars, sealVars,
                 selVars,
                 listenVars>>

HandleWindowCheckbox ==
  /\ page.tabListShown
  /\ ~page.importDisabled
  /\ \E i \in 1..Len(page.listed) :
       page' = handleWindowCheckbox(page, page.listed[i].key,
                                    page.listed[i].key \notin page.headers,
                                    page.listed[i].count)
  /\ UNCHANGED <<hostWindows, disk, exported, imp, created, buildVars, sealVars,
                 selVars,
                 listenVars>>

NextPick ==
  \/ ExportAllWindows
  \/ HandleFileSelect
  \/ HandleDecrypt
  \/ HandleTabCheckbox
  \/ HandleWindowCheckbox
  \/ HandleImport
  \/ ImportRestoreWindow

SpecPick == InitSelect /\ [][NextPick]_vars

(***************************************************************************)
(* SpecValue: a container is built from all windows or from a selection,   *)
(* written, read on the import page, reduced to a selection and restored   *)
(***************************************************************************)
NextValue ==
  \/ HandleExportAll
  \/ HandleExportSelectedClick
  \/ HandleWindowCheckboxChange
  \/ HandleExportSelectedConfirm
  \/ HandleFileSelect
  \/ HandleWindowCheckbox
  \/ HandleImport
  \/ ImportRestoreWindow

\* the browser's windows hold tabs that pass validation
InitValue ==
  /\ \E n \in 0..MaxWindows, k \in 0..MaxHostTabs :
       \E flags \in [1..n -> WindowFlags], tabs \in [1..k -> {TabA, TabB}],
          owner \in [1..k -> 1..n] :
         /\ Adjacent(owner)
         /\ hostWindows = WindowList(flags, tabs, owner)
  /\ disk = NoFile
  /\ exported = NoExport
  /\ page = PageLoaded
  /\ imp = ImportIdle
  /\ created = <<>>
  /\ BuildIdle
  /\ SealIdle
  /\ SelIdle
  /\ ListenIdle

SpecValue == InitValue /\ [][NextValue]_vars

(***************************************************************************)
(***************************************************************************)
(* SpecUI: the popup's export list with its requests in flight, and the    *)
(* import page opening the files the exports wrote                         *)
(***************************************************************************)
\* export-selected-tabs requests the popup may have in flight at once
MaxRequests == 2

\* the browser's focused window holds the tabs a and b
InitUI ==
  /\ hostWindows = <<[focused |-> TRUE, incognito |-> FALSE, tabs |-> <<TabA, TabB>>]>>
  /\ disk = NoFile
  /\ exported = NoExport
  /\ page = PageLoaded
  /\ imp = ImportIdle
  /\ created = <<>>
  /\ BuildIdle
  /\ SealIdle
  /\ SelIdle
  /\ ListenIdle

\* handleExportSelectedConfirm up to its await: a click on the enabled confirm
\* button disables it and sends the request
PopupConfirm ==
  /\ xView = "export-detail"
  /\ ~xDom.confirmDisabled
  /\ xSelected # <<>>
  /\ Len(xDom.requests) < MaxRequests
  /\ \E options \in {o \in ExportOptions :
                        /\ ~o.privacyMode
                        /\ o.secureMode = (o.password # NoPassword)} :
       xDom' = [xDom EXCEPT !.confirmDisabled = TRUE,
                            !.requests = Append(@, [options |-> options,
                                                    selectedTabs |->
                                                      SelectedTabsData(xSelected, xTabs)])]
  /\ UNCHANGED <<xView, xTabs, xSelected, xSession, xMetadata, buildVars, sealVars,
                 pipeVars, listenVars>>

\* the rest of handleExportSelectedConfirm: the background answers request i.
\* saved is whether browser.downloads.download resolved; when it rejects
\* (the user closes the save dialog) exportSelectedTabs answers a failure
PopupAnswered ==
  /\ \E i \in 1..Len(xDom.requests), saved \in BOOLEAN :
       LET request == xDom.requests[i]
           drawn == [salt |-> "salt1", iv |-> "iv1"]
           rest == SubSeq(xDom.requests, 1, i - 1)
                   \o SubSeq(xDom.requests, i + 1, Len(xDom.requests))
           done == exportSelectedTabs(request.options,
                                      [selectedTabs |-> request.selectedTabs],
                                      drawn.salt, drawn.iv)
       IN IF saved /\ done.response.success
          THEN /\ xDom.timers < MaxRequests
               /\ disk' = done.file
               /\ xSession' = done.session
               /\ xMetadata' = done.metadata
               /\ xDom' = [xDom EXCEPT !.requests = rest, !.timers = @ + 1]
          ELSE /\ xDom' = [xDom EXCEPT !.requests = rest, !.confirmDisabled = FALSE]
               /\ UNCHANGED <<disk, xSession, xMetadata>>
  /\ UNCHANGED <<xView, xTabs, xSelected, hostWindows, exported, page, imp, created,
                 buildVars, sealVars, listenVars>>

\* the setTimeout callback of a successful export, 1.5 seconds later
PopupTimer ==
  /\ xDom.timers > 0
  /\ xView' = "export-main"
  /\ xSelected' = <<>>
  /\ xDom' = [xDom EXCEPT !.timers = @ - 1]
  /\ UNCHANGED <<xTabs, xSession, xMetadata, buildVars, sealVars, pipeVars, listenVars>>

\* the click listener of export-back-button
ExportBackButton ==
  /\ xView = "export-detail"
  /\ xView' = "export-main"
  /\ UNCHANGED <<xTabs, xSelected, xSession, xMetadata, xDom, buildVars, sealVars,
                 pipeVars, listenVars>>

\* the popup is closed and opened again: its script starts over with the
\* state of its first lines and an empty status line
PopupReopen ==
  /\ xDom.requests = <<>>
  /\ ~(SelIdle /\ exported = NoExport)
  /\ xView' = "export-main"
  /\ xTabs' = <<>>
  /\ xSelected' = <<>>
  /\ xSession' = NoSession
  /\ xMetadata' = [name |-> "", privacyMode |-> FALSE, secureMode |-> FALSE]
  /\ xDom' = [tabs |-> {}, windows |-> {}, confirmDisabled |-> TRUE,
              requests |-> <<>>, timers |-> 0]
  /\ exported' = NoExport
  /\ UNCHANGED <<hostWindows, disk, page, imp, created, buildVars, sealVars, listenVars>>

\* the import page is loaded again: its script starts over
PageReload ==
  /\ page # PageLoaded
  /\ page' = PageLoaded
  /\ UNCHANGED <<hostWindows, disk, exported, imp, created, buildVars, sealVars, selVars,
                 listenVars>>

\* The two documents share nothing but the file on disk.  The popup's list is
\* used while the import page is as it was loaded, and the page is used while
\* the popup is as it was opened, its export-all button included.
NextUI ==
  \/ page = PageLoaded /\ HandleExportSelectedClick
  \/ page = PageLoaded /\ HandleTabCheckboxChange
  \/ page = PageLoaded /\ HandleWindowCheckboxChange
  \/ page = PageLoaded /\ PopupConfirm
  \/ page = PageLoaded /\ PopupAnswered
  \/ page = PageLoaded /\ PopupTimer
  \/ page = PageLoaded /\ ExportBackButton
  \/ PopupReopen
  \/ SelIdle /\ HandleExportAll
  \/ SelIdle /\ HandleFileSelect
  \/ SelIdle /\ HandleDecrypt
  \/ SelIdle /\ HandleTabCheckbox
  \/ SelIdle /\ HandleWindowCheckbox
  \/ PageReload

SpecUI == InitUI /\ [][NextUI]_vars

(* The background script's message listener                                *)
(***************************************************************************)
\* browser.runtime.id; a sender id of "" is an absent one
RuntimeId == "portab@extension"

\* the own properties of the router object `actions`
Actions ==
  {"export-current", "export-all", "export-pinned", "export-selected-tabs",
   "import-session", "decrypt-session"}

\* actions[message.action]: an own property is a handler; the object literal
\* inherits from Object.prototype, so "constructor" reads as the function
\* Object and "__proto__" as the object Object.prototype; any other name
\* reads as undefined
Lookup(action) ==
  IF action \in Actions THEN [kind |-> "handler", name |-> action]
  ELSE IF action = "constructor" THEN [kind |-> "function", name |-> "Object"]
  ELSE IF action = "__proto__" THEN [kind |-> "object", name |-> "Object.prototype"]
  ELSE [kind |-> "undefined", name |-> ""]

FailureResponse(error) == [success |-> FALSE, error |-> error]

ListenerTrustsEverySender(l, message, sender) ==
  LET called == [l EXCEPT !.sender = sender.id, !.message = message]
  IN IF message.action = ""
     THEN [called EXCEPT !.pc = "returned",
                         !.responses = <<FailureResponse("Invalid message format")>>]
     ELSE LET handler == Lookup(message.action)
          IN IF handler.kind = "undefined"
             THEN [called EXCEPT !.pc = "returned",
                                 !.responses = <<FailureResponse("Unknown action")>>]
             ELSE IF handler.kind = "object"
             THEN [called EXCEPT !.pc = "threw"]
             ELSE [called EXCEPT !.pc = "racing", !.handler = handler.name,
                                 !.timer = "armed"]

\* the listener up to the call of the handler: the sender check, the message
\* check, the lookup in the router; a value that is no function throws when
\* it is called, before the race and its timer are set up
Listener(l, message, sender) ==
  LET called == [l EXCEPT !.sender = sender.id, !.message = message]
  IN IF sender.id = "" \/ sender.id # RuntimeId
     THEN [called EXCEPT !.pc = "returned"]
     ELSE IF message.action = ""
     THEN [called EXCEPT !.pc = "returned",
                         !.responses = <<FailureResponse("Invalid message format")>>]
     ELSE LET handler == Lookup(message.action)
          IN IF handler.kind = "undefined"
             THEN [called EXCEPT !.pc = "returned",
                                 !.responses = <<FailureResponse("Unknown action")>>]
             ELSE IF handler.kind = "object"
             THEN [called EXCEPT !.pc = "threw"]
             ELSE [called EXCEPT !.pc = "racing", !.handler = handler.name,
                                 !.timer = "armed"]

\* Promise.race(...).then(sendResponse).catch(...): the first of the handler
\* and the timer to settle is answered, a later one is dropped
Settle(l, value) ==
  IF l.pc = "racing"
  THEN [l EXCEPT !.pc = "settled", !.responses = Append(@, value)]
  ELSE l

(***************************************************************************)
(* SpecListen: one message reaches the listener; the handler it starts and *)
(* the 30 second timer run side by side                                    *)
(***************************************************************************)


\* the messages tried: no action, a name the router lacks, two names it
\* inherits, an export and an import of the browser's windows
Messages(windows) ==
  {[action |-> a, options |-> [privacyMode |-> FALSE, secureMode |-> FALSE,
        password |-> NoPassword, restoreIncognito |-> FALSE],
    data |-> [session |-> createSession(windows,
                            WithCallerCounts([name |-> "All Windows Session",
                                              privacyMode |-> FALSE,
                                              secureMode |-> FALSE], windows))]] :
     a \in {"", "restore", "constructor", "__proto__", "export-all",
            "import-session"}}

InitListen ==
  /\ \E n \in 0..MaxWindows, k \in 0..MaxHostTabs :
       \E flags \in [1..n -> WindowFlags], tabs \in [1..k -> {TabA, TabB}],
          owner \in [1..k -> 1..n] :
         /\ Adjacent(owner)
         /\ hostWindows = WindowList(flags, tabs, owner)
  /\ disk = NoFile
  /\ exported = NoExport
  /\ page = PageLoaded
  /\ imp = ImportIdle
  /\ created = <<>>
  /\ BuildIdle
  /\ SealIdle
  /\ SelIdle
  /\ ListenIdle

\* the listener is called with a message; a handler runs up to its first
\* await, and an answer it has by then is sent before the timer can fire
OnMessage ==
  /\ lsn.pc = "idle"
  /\ \E message \in Messages(hostWindows), sender \in {[id |-> ""], [id |-> "other@extension"],
        [id |-> RuntimeId]} :
       LET called == Listener(lsn, message, sender)
       IN IF called.handler = "import-session"
          THEN LET started == importSession(message.options, message.data)
               IN /\ imp' = started
                  /\ lsn' = IF started.pc = "done"
                            THEN Settle(called, started.response) ELSE called
          ELSE /\ imp' = imp
               /\ lsn' = IF called.handler = "Object"
                         THEN Settle(called, message.options)
                         ELSE IF called.handler = "export-all"
                         THEN [called EXCEPT !.step = "getAll"]
                         ELSE called
  /\ UNCHANGED <<hostWindows, disk, exported, page, created, buildVars, sealVars,
                 selVars>>

\* exportAllWindows resumes with the windows: it returns a failure, or builds
\* the container and has the browser start the download
ListenExportDownload ==
  /\ lsn.handler = "export-all"
  /\ lsn.step = "getAll"
  /\ LET done == exportAllWindows(lsn.message.options, hostWindows, "salt1", "iv1")
     IN IF done.response.success
        THEN /\ disk' = done.file
             /\ exported' = exported
             /\ lsn' = [lsn EXCEPT !.step = "download"]
        ELSE /\ disk' = disk
             /\ exported' = done.response
             /\ lsn' = Settle([lsn EXCEPT !.step = "done"], done.response)
  /\ UNCHANGED <<hostWindows, page, imp, created, buildVars, sealVars, selVars>>

\* downloadSession returns after its wait and exportAllWindows returns success
ListenExportReturn ==
  /\ lsn.handler = "export-all"
  /\ lsn.step = "download"
  /\ LET done == exportAllWindows(lsn.message.options, hostWindows, "salt1", "iv1")
     IN /\ exported' = done.response
        /\ lsn' = Settle([lsn EXCEPT !.step = "done"], done.response)
  /\ UNCHANGED <<hostWindows, disk, page, imp, created, buildVars, sealVars,
                 selVars>>

\* importSession resumes: one window is created and its pinned tabs pinned;
\* after the last window it returns
ListenRestoreWindow ==
  /\ lsn.handler = "import-session"
  /\ imp.pc = "creating"
  /\ created' = Append(created, CreatedWindow(imp.session.windows[imp.next],
                                              imp.restoreIncognito))
  /\ imp' = importSessionContinue(imp)
  /\ lsn' = IF imp'.pc = "done" THEN Settle(lsn, imp'.response) ELSE lsn
  /\ UNCHANGED <<hostWindows, disk, exported, page, buildVars, sealVars, selVars>>

\* 30 seconds after the race was set up the timer rejects
ListenTimeout ==
  /\ lsn.timer = "armed"
  /\ lsn' = Settle([lsn EXCEPT !.timer = "fired"],
                   FailureResponse("Operation timeout"))
  /\ UNCHANGED <<hostWindows, disk, exported, page, imp, created, buildVars,
                 sealVars, selVars>>

NextListen ==
  \/ OnMessage
  \/ ListenExportDownload
  \/ ListenExportReturn
  \/ ListenRestoreWindow
  \/ ListenTimeout

SpecListen == InitListen /\ [][NextListen]_vars

(***************************************************************************)
(* C1: every tab of every window of a container returned by createSession  *)
(* (either background script) has a URL that parses as an absolute URL and *)
(* whose scheme is not blocklisted (about, chrome, moz-extension,           *)
(* chrome-extension, javascript, data, empty), however the raw string is   *)
(* spelled; the window [a (pinned), javascript:alert(1), b] yields one      *)
(* window of two tabs, tab_count = 2, first tab pinned.                    *)
(***************************************************************************)
BlockedSchemes ==
  {"about", "chrome", "moz-extension", "chrome-extension", "javascript", "data", ""}

UrlSafe(url) == URLParses(url) /\ ParsedScheme(url) \notin BlockedSchemes

C1_BuiltTabsPassValidation ==
  bBy # "none" =>
    /\ \A i \in 1..Len(bSession.windows) :
         \A j \in 1..Len(bSession.windows[i].tabs) :
           UrlSafe(bSession.windows[i].tabs[j].url)
    /\ bWindows = ExampleWindows =>
         /\ Len(bSession.windows) = 1
         /\ Len(bSession.windows[1].tabs) = 2
         /\ bSession.metadata.tab_count = 2
         /\ bSession.windows[1].tabs[1].pinned


(***************************************************************************)
(* Claims about the exported file and the import page (Spec)               *)
(***************************************************************************)
\* the session handed to importSession holds a tab whose URL isValidURL rejects
ImportHasInvalidURL ==
  /\ imp.pc # "idle"
  /\ "windows" \in DOMAIN imp.session
  /\ \E i \in 1..Len(imp.session.windows) :
       \E j \in 1..Len(imp.session.windows[i].tabs) :
         ~isValidURL(imp.session.windows[i].tabs[j].url)

(***************************************************************************)
(* C2: importSession fails the whole operation when any tab of any window  *)
(* has a URL that isValidURL rejects: success = false, no browser window   *)
(* is created and no tab is pinned, also for windows that precede the      *)
(* offending tab and hold only valid URLs.                                 *)
(***************************************************************************)
C2_ImportRejectsInvalidURL ==
  ImportHasInvalidURL =>
    /\ imp.pc = "done"
    /\ ~imp.response.success
    /\ imp.createdWindows = 0
    /\ created = <<>>

C2_Witness ==
  /\ ImportHasInvalidURL
  /\ imp.pc = "done"
  /\ ~imp.response.success
  /\ created = <<>>
  /\ Len(imp.session.windows) = 2
  /\ \A j \in 1..Len(imp.session.windows[1].tabs) :
       isValidURL(imp.session.windows[1].tabs[j].url)
  /\ ~isValidURL(imp.session.windows[2].tabs[1].url)

(***************************************************************************)
(* C7: a plain file whose content was changed after export without         *)
(* updating its signature fails on read with an integrity mismatch: it is  *)
(* never rendered for selection and no window is opened from it.           *)
(***************************************************************************)
C7_EditedPlainFileRejected ==
  page.source = "edited" =>
    /\ page.selectedTabs = <<>>
    /\ imp.pc = "idle"
    /\ created = <<>>

(***************************************************************************)
(* C8: the signature of every file written by the unencrypted path of      *)
(* downloadSession is the SHA-256 digest of the serialization of all its   *)
(* fields except signature: the digest of the written file with its        *)
(* signature field removed is the stored signature.                        *)
(***************************************************************************)
WrittenPlain ==
  /\ disk.text # <<>>
  /\ ~disk.edited
  /\ ~HasTrue(JSONparse(disk.text), "encrypted")

C8_PlainSignatureIsDigest ==
  WrittenPlain =>
    /\ "signature" \in DOMAIN JSONparse(disk.text)
    /\ JSONparse(disk.text).signature
         = generateHash(JSONstringify(
             [k \in DOMAIN JSONparse(disk.text) \ {"signature"} |->
                JSONparse(disk.text)[k]]))

C8_Witness ==
  /\ WrittenPlain
  /\ Len(JSONparse(disk.text).windows) = 2
  /\ JSONparse(disk.text).signature.alg = "SHA-256"

(***************************************************************************)
(* C9: every file written for an export requested with secureMode (the     *)
(* .sportab extension) holds the envelope fields only (version, format,    *)
(* encrypted, algorithm, salt, iv, data, signature) and no window, tab or  *)
(* metadata field in cleartext, whatever the other options are.            *)
(***************************************************************************)
EnvelopeFields ==
  {"version", "format", "encrypted", "algorithm", "salt", "iv", "data", "signature"}

C9_SecureExportIsEnvelopeOnly ==
  (disk.extension = "sportab" /\ ~disk.edited) =>
    {disk.text[i][1] : i \in 1..Len(disk.text)} = EnvelopeFields

(***************************************************************************)
(* Claims about opening a sealed envelope (SpecSeal)                       *)
(***************************************************************************)
Opened == sOpen.opened /\ HasTrue(sOpen.sessionData, "encrypted")

\* the file that was opened is the file as it was written
OpenedAsWritten == sOpen.opened /\ sOpen.sessionData = JSONparse(sSealed.text)

\* the file that was opened differs from the written one in field key alone
OpenedWithChanged(key) ==
  /\ sOpen.opened
  /\ sChanged = key
  /\ sOpen.sessionData = JSONparse(sFile)

\* the tag recomputed from the ciphertext field and the supplied password
\* equals the stored signature
TagMatches ==
  /\ ~HMACThrows(sOpen.password)
  /\ {"data", "signature"} \subseteq DOMAIN sOpen.sessionData
  /\ generateHMAC(sOpen.sessionData.data, sOpen.password) = sOpen.sessionData.signature

(***************************************************************************)
(* C3: on open, the keyed tag is recomputed and compared before any key    *)
(* derivation or decryption; when it differs from the stored signature,    *)
(* decryptSession fails with the wrong-password-or-tampered error and      *)
(* decryptData is not called in that attempt.                              *)
(***************************************************************************)
C3_TagCheckedBeforeDecryption ==
  Opened =>
    /\ sOpen.response.calls # <<>>
    /\ sOpen.response.calls[1] = "verifyHMAC"
    /\ ~TagMatches =>
         /\ ~sOpen.response.success
         /\ sOpen.response.error = ErrInvalidPassword
         /\ "decryptData" \notin Range(sOpen.response.calls)

C3_Witness ==
  /\ Opened
  /\ ~TagMatches
  /\ sOpen.password # NoPassword
  /\ sOpen.response.error = ErrInvalidPassword
  /\ sOpen.response.calls = <<"verifyHMAC">>

(***************************************************************************)
(* C4: opening the envelope written by sealing s with password p, with the *)
(* same p, succeeds and yields exactly s.                                  *)
(***************************************************************************)
C4_SealOpenRoundTrip ==
  (OpenedAsWritten /\ sOpen.password = sSealed.password) =>
    /\ sOpen.response.success
    /\ sOpen.response.text = JSONstringify(sSealed.session)
    /\ sOpen.response.session = JSONparse(JSONstringify(sSealed.session))

C4_Witness ==
  /\ OpenedAsWritten
  /\ sOpen.password = sSealed.password
  /\ sOpen.response.success
  /\ Len(sOpen.response.session.windows) = 1

(***************************************************************************)
(* C5: opening an envelope sealed with p1 with any p2 # p1 always fails    *)
(* with the wrong-password-or-tampered error, never with another error,    *)
(* and never succeeds.                                                     *)
(***************************************************************************)
C5_WrongPasswordRejected ==
  (OpenedAsWritten /\ sOpen.password # sSealed.password) =>
    /\ ~sOpen.response.success
    /\ sOpen.response.error = ErrInvalidPassword

(***************************************************************************)
(* C6: after the data field or the signature field of a sealed envelope    *)
(* was changed to a different value, opening with the sealing password     *)
(* fails with the wrong-password-or-tampered or the decryption-failed      *)
(* error; no password opens it to a session other than the one sealed.     *)
(***************************************************************************)
C6_TamperDetected ==
  (OpenedWithChanged("data") \/ OpenedWithChanged("signature")) =>
    /\ sOpen.password = sSealed.password =>
         /\ ~sOpen.response.success
         /\ sOpen.response.error \in {ErrInvalidPassword, ErrDecryptionFailed}
    /\ sOpen.response.success => sOpen.response.session = sSealed.session

C6_Witness ==
  /\ OpenedWithChanged("signature")
  /\ sOpen.password = sSealed.password
  /\ sOpen.sessionData.signature = generateHMAC(sOpen.sessionData.data, PwB)
  /\ ~sOpen.response.success

(***************************************************************************)
(* C10: an envelope whose algorithm field names a cipher other than        *)
(* AES-GCM is never opened: decryptSession does not return success.        *)
(***************************************************************************)
C10_UnsupportedAlgorithmNeverOpens ==
  (sOpen.opened /\ "algorithm" \in DOMAIN sOpen.sessionData
     /\ sOpen.sessionData.algorithm # "AES-GCM") =>
    ~sOpen.response.success

(***************************************************************************)
(* C11: opening an envelope whose salt or iv field is missing or is not    *)
(* valid base64, with the sealing password and the data and signature as   *)
(* written, fails with an error of its own, which is neither the           *)
(* wrong-password-or-tampered error nor the decryption-failed error.       *)
(***************************************************************************)
MalformedSaltOrIv ==
  /\ \/ OpenedWithChanged("salt")
     \/ OpenedWithChanged("iv")
  /\ \/ sChanged \notin DOMAIN sOpen.sessionData
     \/ ~AtobOK(sOpen.sessionData[sChanged])

C11_MalformedEnvelopeToldApart ==
  (MalformedSaltOrIv /\ sOpen.password = sSealed.password) =>
    /\ ~sOpen.response.success
    /\ sOpen.response.error \notin {ErrInvalidPassword, ErrDecryptionFailed}

(***************************************************************************)
(* Claims about the reduction to a selection (SpecSelect)                  *)
(***************************************************************************)
\* the background has answered export-selected-tabs with a container
SelectedExported == exported.action = "export-selected-tabs" /\ exported.success

\* the indices of the source windows that have a selected tab
SelectedWindows == {xSelected[x][1] : x \in 1..Len(xSelected)}

\* the selected tabs of source window w that pass isValidURL, in the order
\* they have in the source window
ValidSelectedInSourceOrder(w) ==
  FilterSeq(xTabs[w + 1].tabs,
            {xTabs[w + 1].tabs[t + 1] :
               t \in {u \in 0..(Len(xTabs[w + 1].tabs) - 1) :
                        /\ <<w, u>> \in Range(xSelected)
                        /\ isValidURL(xTabs[w + 1].tabs[u + 1].url)}})

\* the tabs an output window holds when it keeps the source order
TabsInSourceOrder(w) ==
  [i \in 1..Len(ValidSelectedInSourceOrder(w)) |->
     BuildSelectedTab(ValidSelectedInSourceOrder(w)[i], i, xMetadata)]

\* the source windows that contribute an output window
ContributingWindows == {w \in SelectedWindows : ValidSelectedInSourceOrder(w) # <<>>}

(***************************************************************************)
(* C12: the tabs of each output window of a subset export are in the order *)
(* they have in the source window, whatever the order in which they were   *)
(* checked: a window [A, B, C] with C checked before A yields [A, C].      *)
(***************************************************************************)
C12_SelectionKeepsSourceOrder ==
  SelectedExported =>
    \A i \in 1..Len(xSession.windows) :
      \E w \in ContributingWindows : xSession.windows[i].tabs = TabsInSourceOrder(w)

\* the source window an output window holds the tabs of
SourceOf(i) ==
  CHOOSE w \in ContributingWindows :
    {t.url : t \in Range(xSession.windows[i].tabs)}
      = {t.url : t \in Range(TabsInSourceOrder(w))}

\* the place in the selection of the first tab selected from source window w
FirstSeen(w) == CHOOSE x \in 1..Len(xSelected) :
                  /\ xSelected[x][1] = w
                  /\ \A y \in 1..(x - 1) : xSelected[y][1] # w

(***************************************************************************)
(* C13: the output windows of createSessionFromSelectedTabs are in the     *)
(* first-seen order of their source windows among the selected references: *)
(* an output window precedes another exactly when the first selected tab   *)
(* of its source window comes before the first selected tab of the other.  *)
(***************************************************************************)
C13_WindowsInFirstSeenOrder ==
  SelectedExported =>
    \A i \in 1..Len(xSession.windows) : \A j \in 1..Len(xSession.windows) :
      i < j => FirstSeen(SourceOf(i)) < FirstSeen(SourceOf(j))

(***************************************************************************)
(* C14: the window keys of the container createSessionFromSelectedTabs     *)
(* returns are window_1 .. window_n without a gap, n being the number of   *)
(* output windows, and the tab ids of each output window are tab_1 ..      *)
(* tab_k in sequence order, also when a selected source window contributes *)
(* no tab with a valid URL.                                                *)
(***************************************************************************)
C14_SelectedKeysSequential ==
  SelectedExported =>
    \A i \in 1..Len(xSession.windows) :
      /\ xSession.windows[i].key = i
      /\ \A j \in 1..Len(xSession.windows[i].tabs) :
           xSession.windows[i].tabs[j].id = j

(***************************************************************************)
(* C15: when the selection yields at least one output window, exactly one  *)
(* window of the container is active and it is the first output window,    *)
(* whatever the source windows' focused flags are and whichever source     *)
(* windows were dropped for having no valid tab.                           *)
(***************************************************************************)
C15_FirstSelectedWindowActive ==
  (SelectedExported /\ xSession.windows # <<>>) =>
    \A i \in 1..Len(xSession.windows) : xSession.windows[i].active <=> (i = 1)

(***************************************************************************)
(* C16: every window of a container produced by a subset export has        *)
(* incognito = false, whatever the incognito flag of the source windows    *)
(* the selected tabs came from.                                            *)
(***************************************************************************)
C16_SelectedWindowsNotIncognito ==
  SelectedExported =>
    \A i \in 1..Len(xSession.windows) : ~xSession.windows[i].incognito

C16_Witness ==
  /\ SelectedExported
  /\ Len(xSession.windows) = 2
  /\ \A w \in ContributingWindows : xTabs[w + 1].incognito
  /\ \A i \in 1..Len(xSession.windows) : ~xSession.windows[i].incognito

(***************************************************************************)
(* Claims about the counts in metadata                                     *)
(***************************************************************************)
\* metadata.tab_count and metadata.window_count are those of the windows
CountsMatch(session) ==
  /\ session.metadata.tab_count = TabCountOf(session.windows)
  /\ session.metadata.window_count = Len(session.windows)

(***************************************************************************)
(* C17: every container produced by reducing to a selection carries        *)
(* metadata.tab_count equal to the number of tabs in its windows and       *)
(* metadata.window_count equal to the number of its windows: the container *)
(* createSessionFromSelectedTabs returns, and the container the import     *)
(* page hands to importSession.                                            *)
(***************************************************************************)
C17_ReducedCountsRecomputed ==
  /\ SelectedExported => CountsMatch(xSession)
  /\ (imp.pc # "idle" /\ {"metadata", "windows"} \subseteq DOMAIN imp.session) =>
       CountsMatch(imp.session)

(***************************************************************************)
(* C18: the container createSession returns (either background script) has *)
(* metadata.tab_count = the sum of the numbers of tabs of its windows and   *)
(* metadata.window_count = the number of its windows: the counts of the    *)
(* filtered result, not the tabCount / windowCount the caller passed.      *)
(***************************************************************************)
C18_BuiltCountsFromResult ==
  bBy # "none" => CountsMatch(bSession)

C18_Witness ==
  /\ bBy = "background"
  /\ CountsMatch(bSession)
  /\ bSession.windows # <<>>
  /\ bSession.metadata.tab_count < bMetadata.tabCount
  /\ bSession.metadata.window_count < bMetadata.windowCount

(***************************************************************************)
(* C19: a source window none of whose tabs passes URL validation has no    *)
(* entry in the container built by createSession or by                     *)
(* createSessionFromSelectedTabs: no window with an empty tabs list is     *)
(* emitted, the container has one window for each source window that has   *)
(* a valid (selected) tab, and metadata.window_count is that number.       *)
(***************************************************************************)
\* no window of the container is empty
NoEmptyWindow(session) ==
  \A i \in 1..Len(session.windows) : session.windows[i].tabs # <<>>

\* the windows handed to createSession that have a tab with a valid URL
WindowsWithValidTab(windows) ==
  {i \in 1..Len(windows) :
     \E j \in 1..Len(windows[i].tabs) : isValidURL(windows[i].tabs[j].url)}

\* the container createSession built for a plain export of all windows, as
\* written to the file
AllExportedPlain ==
  /\ exported.action = "export-all"
  /\ exported.success
  /\ ~HasTrue(JSONparse(disk.text), "encrypted")

C19_EmptyWindowsDropped ==
  /\ SelectedExported =>
       /\ NoEmptyWindow(xSession)
       /\ Len(xSession.windows) = Cardinality(ContributingWindows)
       /\ xSession.metadata.window_count = Cardinality(ContributingWindows)
  /\ AllExportedPlain =>
       /\ NoEmptyWindow(JSONparse(disk.text))
       /\ Len(JSONparse(disk.text).windows)
            = Cardinality(WindowsWithValidTab(hostWindows))
       /\ JSONparse(disk.text).metadata.window_count
            = Cardinality(WindowsWithValidTab(hostWindows))

C19_Witness ==
  /\ SelectedExported
  /\ SelectedWindows = {0, 1}
  /\ ContributingWindows = {1}
  /\ Len(xSession.windows) = 1
  /\ xSession.metadata.window_count = 1

(***************************************************************************)
(* C20: when every tab of every source window is selected, in source       *)
(* order, the container createSessionFromSelectedTabs returns holds the    *)
(* same tabs with the same content (url, title, pinned, favicon) in the    *)
(* same order, window by window, as the container createSession builds     *)
(* from the same windows with the same redaction flags.                    *)
(***************************************************************************)
RECURSIVE AllRefsFrom(_, _)
\* the reference of every tab of windows from window w on, in source order
AllRefsFrom(windows, w) ==
  IF w >= Len(windows) THEN <<>>
  ELSE [t \in 1..Len(windows[w + 1].tabs) |-> <<w, t - 1>>]
       \o AllRefsFrom(windows, w + 1)

\* what a tab of a container holds besides its id
TabContent(tab) ==
  [url |-> tab.url, title |-> tab.title, pinned |-> tab.pinned,
   favicon |-> FieldOr(tab, "favicon", NoFavicon)]

WindowContent(window) ==
  [i \in 1..Len(window.tabs) |-> TabContent(window.tabs[i])]

C20_FullSelectionSameContent ==
  (SelectedExported /\ xSelected = AllRefsFrom(xTabs, 0)) =>
    LET full == createSession(xTabs, xMetadata)
    IN /\ Len(xSession.windows) = Len(full.windows)
       /\ \A i \in 1..Len(full.windows) :
            WindowContent(xSession.windows[i]) = WindowContent(full.windows[i])

(***************************************************************************)
(* Claims about the redaction modes of createSession (SpecBuild)           *)
(***************************************************************************)
\* createSession of the background script with import/export has returned
Built == bBy = "background"

\* the tabs of the raw window a built window was made from that pass
\* validation, in their order
ValidSourceTabs(window) ==
  FilterSeq(bWindows[window.key].tabs,
            {t \in Range(bWindows[window.key].tabs) : isValidURL(t.url)})

\* the parts the URL parser takes a URL string apart into
UrlParts(url) ==
  [scheme |-> ParsedScheme(url),
   host |-> url.host,
   path |-> IF ParsedScheme(url) \in SpecialSchemes /\ url.path = ""
            THEN "/" ELSE url.path,
   query |-> url.query]

\* the query parameters whose name is not in the tracking list, in order
WithoutTracking(query) == SelectSeq(query, LAMBDA name : name \notin trackingParams)

(***************************************************************************)
(* C21: with privacy mode on and secure mode off, every tab of the         *)
(* container built by createSession has the title "[Private]", no favicon  *)
(* field, and a URL whose scheme, host and path are those of the source    *)
(* tab's URL and whose query parameters are the source's parameters that   *)
(* are not in the tracking list, in their order.                           *)
(***************************************************************************)
C21_PrivacyModeRedacts ==
  (Built /\ bMetadata.privacyMode /\ ~bMetadata.secureMode) =>
    \A i \in 1..Len(bSession.windows) :
      LET window == bSession.windows[i]
      IN /\ Len(window.tabs) = Len(ValidSourceTabs(window))
         /\ \A j \in 1..Len(window.tabs) :
              /\ window.tabs[j].title = "[Private]"
              /\ "favicon" \notin DOMAIN window.tabs[j]
              /\ UrlParts(window.tabs[j].url)
                   = [UrlParts(ValidSourceTabs(window)[j].url) EXCEPT
                        !.query = WithoutTracking(@)]

C21_Witness ==
  /\ Built /\ bMetadata.privacyMode /\ ~bMetadata.secureMode
  /\ \E i \in 1..Len(bSession.windows) :
       \E j \in 1..Len(bSession.windows[i].tabs) :
         /\ ValidSourceTabs(bSession.windows[i])[j] = TabD
         /\ bSession.windows[i].tabs[j].url.query = <<"page", "q">>
         /\ bSession.windows[i].tabs[j].title = "[Private]"

\* the tabs of a list that pass validation, in their order
ValidTabsOf(tabs) == FilterSeq(tabs, {t \in Range(tabs) : isValidURL(t.url)})

\* the selected tabs an output window of a subset export was made from: those
\* pushed for its source window that pass validation, in the order pushed
SelectedSourceTabs(window) ==
  ValidTabsOf(TabsPushed(SelectedTabsData(xSelected, xTabs),
                         SortedKeys(SelectedWindows)[window.key]))

\* every tab of the window has the hidden title, no favicon field and the URL
\* string of the tab of source at its place
HiddenWithSourceURLs(window, source) ==
  /\ Len(window.tabs) = Len(source)
  /\ \A j \in 1..Len(window.tabs) :
       /\ window.tabs[j].title = "[Secure - Hidden]"
       /\ "favicon" \notin DOMAIN window.tabs[j]
       /\ window.tabs[j].url = source[j].url

SecureOnly(metadata) == metadata.secureMode /\ ~metadata.privacyMode

(***************************************************************************)
(* C22: with secure mode on and privacy mode off, every tab of the built   *)
(* container has the title "[Secure - Hidden]", no favicon field, and a    *)
(* URL identical to the source tab's URL, tracking parameters included:    *)
(* for the container createSessionFromSelectedTabs returns, and for the    *)
(* container createSession builds from the same windows and options.       *)
(***************************************************************************)
C22_SecureModeHidesTitlesOnly ==
  (SelectedExported /\ SecureOnly(xMetadata)) =>
    /\ \A i \in 1..Len(xSession.windows) :
         HiddenWithSourceURLs(xSession.windows[i],
                              SelectedSourceTabs(xSession.windows[i]))
    /\ LET full == createSession(xTabs, xMetadata)
       IN \A i \in 1..Len(full.windows) :
            HiddenWithSourceURLs(full.windows[i],
                                 ValidTabsOf(xTabs[full.windows[i].key].tabs))

C22_Witness ==
  /\ SelectedExported /\ SecureOnly(xMetadata)
  /\ \E i \in 1..Len(xSession.windows) :
       /\ Len(xSession.windows[i].tabs) = 2
       /\ {TabA, TabB} \subseteq Range(SelectedSourceTabs(xSession.windows[i]))
       /\ \E j \in 1..2 :
            /\ xSession.windows[i].tabs[j].url = TabB.url
            /\ xSession.windows[i].tabs[j].title = "[Secure - Hidden]"

\* what a container holds besides the url, title and favicon of its tabs and
\* the recorded flags, format and name; a tab is told by its id, its pinned
\* flag and the host of its URL, which no redaction touches
Structure(session) ==
  [windows |->
     [i \in 1..Len(session.windows) |->
        [key |-> session.windows[i].key,
         active |-> session.windows[i].active,
         incognito |-> session.windows[i].incognito,
         tabs |-> [j \in 1..Len(session.windows[i].tabs) |->
                     [id |-> session.windows[i].tabs[j].id,
                      pinned |-> session.windows[i].tabs[j].pinned,
                      host |-> session.windows[i].tabs[j].url.host]]]],
   tab_count |-> session.metadata.tab_count,
   window_count |-> session.metadata.window_count]

\* the metadata argument with the redaction flags set to p and s
WithFlags(metadata, p, s) ==
  [metadata EXCEPT !.privacyMode = p, !.secureMode = s]

(***************************************************************************)
(* C23: the redaction policies are structure-preserving: for the same raw  *)
(* windows, the containers createSession builds under the four             *)
(* combinations of privacyMode and secureMode have the same window keys,   *)
(* the same number and order of tabs in each window, the same tab ids and  *)
(* pinned flags, the same active and incognito flags and the same          *)
(* tab_count and window_count.                                             *)
(***************************************************************************)
C23_RedactionKeepsStructure ==
  Built =>
    \A p \in BOOLEAN, s \in BOOLEAN :
      Structure(createSession(bWindows, WithFlags(bMetadata, p, s)))
        = Structure(bSession)

C23_Witness ==
  /\ Built
  /\ bMetadata.privacyMode /\ bMetadata.secureMode
  /\ Len(bSession.windows) = 2
  /\ \E i \in 1..2 :
       /\ bSession.windows[i].incognito
       /\ Len(bSession.windows[i].tabs) = 2
       /\ bSession.windows[i].tabs[1].pinned
  /\ createSession(bWindows, WithFlags(bMetadata, FALSE, FALSE)).windows
       # bSession.windows
  /\ Structure(createSession(bWindows, WithFlags(bMetadata, FALSE, FALSE)))
       = Structure(bSession)

\* the tabs of the raw window a built window was made from that pass the
\* validation of the script that built it
ValidSourceTabsBy(window) ==
  IF bBy = "background" THEN ValidSourceTabs(window)
  ELSE FilterSeq(bWindows[window.key].tabs,
                 {t \in Range(bWindows[window.key].tabs) : isValidURLExportOnly(t.url)})

\* the output tab was made from the source tab: the URL string is the
\* source's, or with privacy mode its scheme, host and path are
MadeFrom(tab, source) ==
  /\ tab.pinned = source.pinned
  /\ IF bMetadata.privacyMode
     THEN [UrlParts(tab.url) EXCEPT !.query = <<>>]
            = [UrlParts(source.url) EXCEPT !.query = <<>>]
     ELSE tab.url = source.url

(***************************************************************************)
(* C24: for every window built by createSession, the output tabs are       *)
(* exactly the source tabs that pass URL validation, in their original     *)
(* relative order, each with the source tab's pinned flag, and their ids   *)
(* are tab_1 .. tab_k by output position within the window.                *)
(***************************************************************************)
C24_ValidTabsInOrderWithIds ==
  bBy # "none" =>
    \A i \in 1..Len(bSession.windows) :
      LET window == bSession.windows[i]
          source == ValidSourceTabsBy(window)
      IN /\ Len(window.tabs) = Len(source)
         /\ \A j \in 1..Len(window.tabs) :
              /\ window.tabs[j].id = j
              /\ MadeFrom(window.tabs[j], source[j])

C24_Witness ==
  /\ Built
  /\ \E i \in 1..Len(bSession.windows) :
       LET window == bSession.windows[i]
       IN /\ Len(bWindows[window.key].tabs) = 3
          /\ ~isValidURL(bWindows[window.key].tabs[2].url)
          /\ bWindows[window.key].tabs[3] = TabD
          /\ Len(window.tabs) = 2
          /\ window.tabs[2].id = 2
          /\ window.tabs[2].pinned
          /\ ~window.tabs[1].pinned

\* the favicon string is an absolute http: or https: URL
IsHttpURL(f) == f.head \in {"http", "https"} /\ f.tail # ""

Restored == imp.pc = "done" /\ imp.response.success

\* the windows of the session handed to importSession that have a tab
NonEmptyWindows == SelectSeq(WindowsOf(imp.session), LAMBDA w : w.tabs # <<>>)

\* url and pinned of the tabs of a window, in their order
UrlsAndPins(tabs) ==
  [j \in 1..Len(tabs) |-> [url |-> tabs[j].url, pinned |-> tabs[j].pinned]]

(***************************************************************************)
(* C26: a successful importSession creates, for each non-empty window of   *)
(* the session in container order, one browser window whose tabs are the   *)
(* session window's tab URLs in sequence order, each tab pinned exactly    *)
(* when the session tab at its position is pinned; the reported            *)
(* windowCount and tabCount are the numbers of windows and tabs created.   *)
(***************************************************************************)
C26_RestoreKeepsOrderAndPins ==
  Restored =>
    /\ Len(created) = Len(NonEmptyWindows)
    /\ \A i \in 1..Len(created) :
         UrlsAndPins(created[i].tabs) = UrlsAndPins(NonEmptyWindows[i].tabs)
    /\ imp.response.windowCount = Len(created)
    /\ imp.response.tabCount = TabCountOf(created)

(***************************************************************************)
(* C27: importSession creates a window as incognito exactly when the       *)
(* session window has incognito = true and the restoreIncognito option is  *)
(* set; with the option unset no created window is incognito.              *)
(***************************************************************************)
C27_IncognitoOnlyOnRequest ==
  imp.pc \in {"creating", "done"} =>
    /\ Len(created) <= Len(NonEmptyWindows)
    /\ \A i \in 1..Len(created) :
         created[i].incognito
           <=> (HasTrue(NonEmptyWindows[i], "incognito") /\ imp.restoreIncognito)
    /\ ~imp.restoreIncognito => \A i \in 1..Len(created) : ~created[i].incognito

C27_Witness ==
  /\ Restored
  /\ imp.restoreIncognito
  /\ Len(created) = 2
  /\ NonEmptyWindows[1].incognito /\ created[1].incognito
  /\ ~NonEmptyWindows[2].incognito /\ ~created[2].incognito

(***************************************************************************)
(* C28: containers are value types: a step in which createSession or       *)
(* createSessionFromSelectedTabs builds the exported container leaves the  *)
(* browser's windows, the popup's list of tabs and the selection as they   *)
(* were, and a step in which handleImport builds the session to import     *)
(* leaves currentSession, with the tab lists of its windows, and           *)
(* selectedTabs as they were.                                              *)
(***************************************************************************)
C28_TransformsLeaveInputs ==
  [][/\ exported' # exported =>
          /\ hostWindows' = hostWindows
          /\ xTabs' = xTabs
          /\ xSelected' = xSelected
     /\ imp' # imp =>
          /\ page'.currentSession = page.currentSession
          /\ page'.selectedTabs = page.selectedTabs]_vars

C28_Witness ==
  /\ SelectedExported
  /\ xTabs = hostWindows
  /\ Len(xSession.windows) = 2
  /\ Restored
  /\ Len(imp.session.windows) = 1
  /\ Len(page.currentSession.windows) = 2
  /\ page.currentSession = JSONparse(disk.text)

(***************************************************************************)
(* Claims about opening a sealed file on the import page (Spec)            *)
(***************************************************************************)
DecryptErrors == {ErrNotEncrypted, ErrInvalidPassword, ErrDecryptionFailed}

\* the step is handleDecrypt with a failure as the answer: the page shows the
\* error of decrypt-session
DecryptFailedStep == page'.status # page.status /\ page'.status \in DecryptErrors

\* the step is handleDecrypt with a success as the answer
DecryptSucceededStep ==
  page'.status # page.status /\ page'.status = "Decrypted successfully!"

(***************************************************************************)
(* C29: a failed open attempt is terminal and not retried: the step in     *)
(* which handleDecrypt receives a failure leaves currentSession the sealed *)
(* envelope, renders and selects no tab, shows the error and leaves the    *)
(* decrypt section shown with its button enabled for the next click; only  *)
(* a step with a successful answer replaces currentSession, by the session *)
(* decryptSession returned for the envelope and a password.                *)
(***************************************************************************)
C29_FailedOpenIsTerminal ==
  [][/\ DecryptFailedStep =>
          /\ page'.currentSession = page.currentSession
          /\ HasTrue(page'.currentSession, "encrypted")
          /\ page'.tabListShown = page.tabListShown
          /\ page'.selectedTabs = page.selectedTabs
          /\ page'.decryptShown
          /\ ~page'.decryptDisabled
          /\ UNCHANGED <<imp, created>>
     /\ (HasTrue(page.currentSession, "encrypted")
           /\ ~HasTrue(page'.currentSession, "encrypted")
           /\ disk' = disk /\ page'.source = page.source) =>
          /\ DecryptSucceededStep
          /\ \E password \in Passwords :
               LET response == decryptSession([password |-> password],
                                              [sessionData |-> page.currentSession])
               IN response.success /\ page'.currentSession = response.session]_vars

C29_Witness ==
  /\ page.status = ErrInvalidPassword
  /\ HasTrue(page.currentSession, "encrypted")
  /\ page.currentSession = JSONparse(disk.text)
  /\ ~page.tabListShown
  /\ page.selectedTabs = <<>>
  /\ page.decryptShown
  /\ ~page.decryptDisabled
  /\ imp.pc = "idle"

(***************************************************************************)
(* Claims about a changed salt or iv (SpecSeal)                            *)
(***************************************************************************)
\* the envelope was opened with the sealing password after its salt or its iv
\* field alone was changed or removed
OpenedWithChangedSaltOrIv ==
  /\ OpenedWithChanged("salt") \/ OpenedWithChanged("iv")
  /\ sOpen.password = sSealed.password

\* the changed field still decodes to the bytes that were written
SameBytesAsWritten ==
  /\ sChanged \in DOMAIN sOpen.sessionData
  /\ AtobOK(sOpen.sessionData[sChanged])
  /\ atob(sOpen.sessionData[sChanged]) = atob(JSONparse(sSealed.text)[sChanged])

\* the tag check passed and decryptData threw
FailedAtDecryption ==
  /\ sOpen.response.calls = <<"verifyHMAC", "decryptData">>
  /\ ~sOpen.response.success
  /\ sOpen.response.error = ErrDecryptionFailed

(***************************************************************************)
(* C30 as stated: after the salt or the iv of a sealed envelope is         *)
(* changed, with data and signature intact, opening with the correct       *)
(* password passes the tag check and fails at decryption with the          *)
(* decryption-failed error; it never yields a decrypted session.           *)
(***************************************************************************)
C30_ChangedSaltOrIvFailsAtDecryption ==
  OpenedWithChangedSaltOrIv => FailedAtDecryption

(***************************************************************************)
(* C30, amended: after the salt or the iv of a sealed envelope is changed, *)
(* opening with the correct password passes the tag check; it fails at     *)
(* decryption with the decryption-failed error when the field is missing,  *)
(* is not base64 or decodes to other bytes than those written, and it      *)
(* yields the sealed session when the field is another base64 spelling of  *)
(* the same bytes.                                                         *)
(***************************************************************************)
C30_ChangedSaltOrIvBytesFailAtDecryption ==
  OpenedWithChangedSaltOrIv =>
    /\ sOpen.response.calls = <<"verifyHMAC", "decryptData">>
    /\ IF SameBytesAsWritten
       THEN /\ sOpen.response.success
            /\ sOpen.response.text = JSONstringify(sSealed.session)
       ELSE FailedAtDecryption

C30_Witness ==
  /\ OpenedWithChangedSaltOrIv
  /\ sChanged = "iv"
  /\ AtobOK(sOpen.sessionData.iv)
  /\ ~SameBytesAsWritten
  /\ FailedAtDecryption

(***************************************************************************)
(* Claims about both redaction flags together (SpecBuild)                  *)
(***************************************************************************)
\* the two placeholder titles
PlaceholderTitles == {"[Private]", "[Secure - Hidden]"}

(***************************************************************************)
(* C31: the two redaction flags are independent.  Whatever flags were      *)
(* requested, metadata.privacy_mode and metadata.secure_mode of the built  *)
(* container are the requested privacyMode and secureMode; and with both   *)
(* on, every built tab has the tracking parameters stripped from its URL   *)
(* (scheme, host, path and the other parameters kept), no favicon field,   *)
(* and one placeholder title, the secure one.                              *)
(***************************************************************************)
C31_BothFlagsBothEffects ==
  Built =>
    /\ bSession.metadata.privacy_mode = bMetadata.privacyMode
    /\ bSession.metadata.secure_mode = bMetadata.secureMode
    /\ (bMetadata.privacyMode /\ bMetadata.secureMode) =>
         \A i \in 1..Len(bSession.windows) :
           LET window == bSession.windows[i]
           IN /\ Len(window.tabs) = Len(ValidSourceTabs(window))
              /\ \A j \in 1..Len(window.tabs) :
                   /\ UrlParts(window.tabs[j].url)
                        = [UrlParts(ValidSourceTabs(window)[j].url) EXCEPT
                             !.query = WithoutTracking(@)]
                   /\ "favicon" \notin DOMAIN window.tabs[j]
                   /\ window.tabs[j].title \in PlaceholderTitles
                   /\ window.tabs[j].title = "[Secure - Hidden]"

C31_Witness ==
  /\ Built /\ bMetadata.privacyMode /\ bMetadata.secureMode
  /\ bSession.metadata.privacy_mode /\ bSession.metadata.secure_mode
  /\ \E i \in 1..Len(bSession.windows) :
       \E j \in 1..Len(bSession.windows[i].tabs) :
         /\ ValidSourceTabs(bSession.windows[i])[j] = TabD
         /\ bSession.windows[i].tabs[j].url.query = <<"page", "q">>
         /\ bSession.windows[i].tabs[j].title = "[Secure - Hidden]"

(***************************************************************************)
(* Claims about the background listener (SpecListen)                       *)
(***************************************************************************)
\* the listener was called with a message of the extension itself
Accepted == lsn.pc # "idle" /\ lsn.sender = RuntimeId

TimeoutFailure == FailureResponse("Operation timeout")

\* what the handler that was started has returned, if it has
HandlerReturned ==
  \/ lsn.handler = "import-session" /\ imp.pc = "done"
  \/ lsn.handler = "export-all" /\ lsn.step = "done"

HandlerResult == IF lsn.handler = "import-session" THEN imp.response ELSE exported

(***************************************************************************)
(* C32: for a message the listener accepts, sendResponse is called exactly *)
(* once.  A message without an action or with an action that is none of    *)
(* the router's gets one failure response and runs no handler; a known     *)
(* action gets no response while the race is open and, once it is settled, *)
(* one response: the handler's result, or the timeout failure when the     *)
(* timer fired first, never both.                                          *)
(***************************************************************************)
C32_OneResponsePerAcceptedMessage ==
  Accepted =>
    /\ Len(lsn.responses) <= 1
    /\ lsn.message.action \notin Actions =>
         /\ lsn.handler = "none"
         /\ lsn.pc = "returned"
         /\ lsn.responses \in {<<FailureResponse("Invalid message format")>>,
                               <<FailureResponse("Unknown action")>>}
    /\ lsn.message.action \in Actions =>
         /\ lsn.handler = lsn.message.action
         /\ lsn.pc \in {"racing", "settled"}
         /\ lsn.pc = "racing" => lsn.responses = <<>>
         /\ lsn.pc = "settled" =>
              /\ Len(lsn.responses) = 1
              /\ IF lsn.responses[1] = TimeoutFailure
                 THEN lsn.timer = "fired"
                 ELSE HandlerReturned /\ lsn.responses[1] = HandlerResult

(***************************************************************************)
(* C33: once the listener has answered with the timeout failure, the       *)
(* handler it raced against has no further effect on the browser: no step  *)
(* creates a window, pins a tab or starts a download.                      *)
(***************************************************************************)
C33_NoSideEffectAfterTimeout ==
  [][(lsn.responses = <<TimeoutFailure>>) => (created' = created /\ disk' = disk)]_vars

(***************************************************************************)
(* C34: a message whose sender id is absent or is not the extension's own  *)
(* id runs no handler and gets no response, whatever its action and data:  *)
(* the listener returns at once, no timer is set, no window is created and *)
(* no download started.                                                    *)
(***************************************************************************)
C34_ForeignSenderIgnored ==
  (lsn.pc # "idle" /\ lsn.sender # RuntimeId) =>
    /\ lsn.pc = "returned"
    /\ lsn.handler = "none"
    /\ lsn.responses = <<>>
    /\ lsn.timer = "unset"
    /\ imp = ImportIdle
    /\ created = <<>>
    /\ disk = NoFile
    /\ exported = NoExport

C34_Witness ==
  /\ lsn.pc = "returned"
  /\ lsn.sender = "other@extension"
  /\ lsn.message.action = "import-session"
  /\ lsn.message.data.session.windows # <<>>
  /\ lsn.responses = <<>>


(***************************************************************************)
(* C35: in every state of the import page every id in selectedTabs refers  *)
(* to an existing tab of currentSession: its window key is a key of        *)
(* currentSession.windows and its index is within that window's tabs,      *)
(* whatever files were loaded, decrypted and whatever boxes were clicked.  *)
(***************************************************************************)
C35_SelectedTabsReferToCurrentSession ==
  \A tabId \in Range(page.selectedTabs) :
    \E i \in 1..Len(WindowsOf(page.currentSession)) :
      /\ WindowsOf(page.currentSession)[i].key = tabId[1]
      /\ tabId[2] < Len(WindowsOf(page.currentSession)[i].tabs)

(***************************************************************************)
(* C36: after any sequence of tab-checkbox and window-checkbox events the  *)
(* selection set is exactly the set of tabs whose checkbox is checked, on  *)
(* the import page and in the popup, also after a completed export.        *)
(* This is the claim as it was stated; the popup's half fails once the     *)
(* timer of a successful export has cleared the set.                       *)
(***************************************************************************)
C36_SelectionIsTheCheckedBoxes ==
  /\ Range(page.selectedTabs) = page.checked
  /\ Range(xSelected) = xDom.tabs

(***************************************************************************)
(* C36, amended: the selection set is exactly the set of tabs whose        *)
(* checkbox is checked, always on the import page, and in the popup        *)
(* whenever the export-detail view is shown; the timer of a completed      *)
(* export empties the set and leaves the view, and the hidden checkboxes   *)
(* keep their state until the list is rendered again.                      *)
(***************************************************************************)
C36_SelectionIsTheCheckedBoxesShown ==
  /\ Range(page.selectedTabs) = page.checked
  /\ xView = "export-detail" => Range(xSelected) = xDom.tabs

\* the list is shown again after an export of selected tabs was written and
\* its timer has fired, and one of its two tabs is checked
C36_Witness ==
  /\ xView = "export-detail"
  /\ xSession # NoSession
  /\ xDom.timers = 0
  /\ Cardinality(xDom.tabs) = 1
  /\ Len(xSelected) = 1

(***************************************************************************)
(* C37: for every window of a list that has at least one tab, the header   *)
(* checkbox is checked if and only if every tab checkbox of that window is *)
(* checked, on the import page and in the popup, after any sequence of     *)
(* tab-checkbox and window-checkbox events.                                *)
(***************************************************************************)
C37_HeaderCheckedIffAllTabsChecked ==
  /\ \A i \in 1..Len(page.listed) :
       page.listed[i].count > 0 =>
         (page.listed[i].key \in page.headers
            <=> TabBoxes(page.listed[i].key, page.listed[i].count) \subseteq page.checked)
  /\ \A windowIndex \in 0..(Len(xTabs) - 1) :
       xTabs[windowIndex + 1].tabs # <<>> =>
         (windowIndex \in xDom.windows
            <=> TabBoxes(windowIndex, Len(xTabs[windowIndex + 1].tabs)) \subseteq xDom.tabs)

\* the page lists a window of two tabs; one tab was unchecked and the header
\* with it
C37_Witness ==
  /\ page.tabListShown
  /\ \E i \in 1..Len(page.listed) :
       /\ page.listed[i].count = 2
       /\ page.listed[i].key \notin page.headers
       /\ Cardinality(page.checked) = 1

(***************************************************************************)
(* C38: in the popup at most one export-selected-tabs request is in flight *)
(* at a time, and the confirm button stays disabled from the click that    *)
(* sends the request until its response arrives, whatever checkbox events  *)
(* and clicks come in between.                                             *)
(***************************************************************************)
C38_OneRequestInFlight ==
  /\ Len(xDom.requests) <= 1
  /\ xDom.requests # <<>> => xDom.confirmDisabled

C40_SuccessMeansTabsWritten ==
  /\ exported.success =>
       /\ exported.tabCount >= 1
       /\ "windows" \in DOMAIN JSONparse(disk.text) =>
            /\ JSONparse(disk.text).windows # <<>>
            /\ TabCountOf(JSONparse(disk.text).windows) >= 1
  /\ (/\ exported.action # "none"
      /\ \A i \in 1..Len(hostWindows) :
           \A j \in 1..Len(hostWindows[i].tabs) : ~isValidURL(hostWindows[i].tabs[j].url))
       => (~exported.success /\ disk = NoFile)
=============================================================================
